---- MODULE Spec2Model ----
(***************************************************************************)
(* A model of the graph construction of smiles-drawer (src/src/Graph.ts),   *)
(* of its edges (Edge) and of its ring connections                         *)
(* (src/src/RingConnection.ts).                                            *)
(*                                                                         *)
(* Vertex and edge ids are 0-based as in the source; TLA+ sequences are     *)
(* 1-based, so the vertex with id i is vertices[i + 1].                     *)
(***************************************************************************)
EXTENDS Integers, Sequences, FiniteSets, TLC

VARIABLES parseTree, graph, pc, rings, ringConnections, rpc, layout, builds, pseudoAtom, call,
          app, reaction, themeManager, connection, helper, line

vars == <<parseTree, graph, pc, rings, ringConnections, rpc, layout, builds, pseudoAtom, call,
          app, reaction, themeManager, connection, helper, line>>

graphVars == <<parseTree, graph, pc>>

ringVars == <<rings, ringConnections, rpc>>

\* the drawer, the concurrent builds, the atom with pseudo elements, the parse call
restVars == <<layout, builds, pseudoAtom, call, app, reaction, themeManager, connection,
              helper, line>>

\* the demo page, the reaction, the theme manager, one ring connection, the call of a
\* helper function, the line
moreVars == <<app, reaction, themeManager, connection, helper, line>>

----------------------------------------------------------------------------
(* Bounds of the model *)

\* the largest number of atom nodes of a parse tree
MaxNodes == 3

\* the largest number of ring-closure labels of a parse tree
MaxClosures == 1

\* the largest number of rings of a molecule
MaxRings == 3

\* the largest number of vertices a ring shares with the rings found before it
MaxShared == 3

\* the largest overlap score of a layout
MaxScore == 3

\* the largest value of the option overlapResolutionIterations
MaxIterations == 2

\* the largest number of draw invocations of one drawer
MaxDraws == 2

\* the largest number of atoms of a molecule whose formula is taken
MaxAtoms == 3

\* the largest hydrogen count of a collapsed terminal group
MaxHydrogens == 1

\* the largest number of SmilesDrawer.parse calls
MaxCalls == 2

\* the largest number of events of the demo page
MaxEvents == 3

\* the largest length of a reaction SMILES
MaxLength == 5

\* the largest number of setTheme calls
MaxThemeCalls == 3

\* the largest ring id of an updateOther call
MaxRingId == 2

\* the largest number of updateOther calls
MaxUpdates == 2

\* the largest length of a permutation
MaxPermutation == 4

\* the largest length of an array handed to ArrayHelper
MaxArray == 3

\* the largest coordinate of an endpoint of a line
MaxCoordinate == 1

\* the largest number of elements SmilesDrawer.apply selects
MaxElements == 3

----------------------------------------------------------------------------
(* null and the falsy values of JavaScript *)

Null == 0 - 1

NoBond == "null"

NoBracket == [element |-> "", hcount |-> 0, chirality |-> ""]

\* a || b on bond symbols: null and the empty string are falsy
OrElse(a, b) == IF a = NoBond \/ a = "" THEN b ELSE a

At(seq, i) == seq[i + 1]

\* a part of the program that takes no part in a specification
Idle == "idle"

InitMoreIdle ==
  /\ app = Idle
  /\ reaction = Idle
  /\ themeManager = Idle
  /\ connection = Idle
  /\ helper = Idle
  /\ line = Idle

InitRestIdle ==
  /\ layout = Idle
  /\ builds = Idle
  /\ pseudoAtom = Idle
  /\ call = Idle
  /\ InitMoreIdle

----------------------------------------------------------------------------
(* Edge: src/unnamed/part_001 *)

BondSymbols == {"-", "/", "\\", "=", "#", "$"}

\* Edge.bonds
bonds == [b \in BondSymbols |->
            CASE b = "-" -> 1
              [] b = "/" -> 1
              [] b = "\\" -> 1
              [] b = "=" -> 2
              [] b = "#" -> 3
              [] b = "$" -> 4]

\* new Edge(sourceId, targetId, weight)
Edge(sourceId, targetId, weight) ==
  [id |-> Null, sourceId |-> sourceId, targetId |-> targetId, weight |-> weight,
   bondType |-> "-", isPartOfAromaticRing |-> FALSE, center |-> FALSE, wedge |-> ""]

\* Edge.setBondType: also sets the weight
setBondType(edge, bondType) ==
  [edge EXCEPT !.bondType = bondType, !.weight = bonds[bondType]]

----------------------------------------------------------------------------
(* The parse tree handed over by the parser: an arena of nodes 1..n, node 1 *)
(* the root; a node names its branches and its chain continuation by index  *)
(* (0: no next).                                                           *)

\* the atoms of a parse tree: a plain organic atom is a string, a bracket
\* atom an object with element, hcount and chirality
PlainC == [bracket |-> FALSE, element |-> "C", hcount |-> 0, chirality |-> ""]

BracketH == [bracket |-> TRUE, element |-> "H", hcount |-> 0, chirality |-> ""]

ChiralCH == [bracket |-> TRUE, element |-> "C", hcount |-> 1, chirality |-> "@"]

BracketNH == [bracket |-> TRUE, element |-> "N", hcount |-> 1, chirality |-> ""]

AtomKinds == {PlainC, BracketH, ChiralCH, BracketNH}

\* the bond symbols the inputs are drawn from: those of a chain bond and
\* those of a branch bond
ChainBonds == {"-", "="}

BranchBonds == {"-", "#"}

branchCount(node) == Len(node.branches)

ringbondCount(node) == Len(node.ringbonds)

hasNext(node) == node.next # 0

\* the node _init makes for an explicit stereo hydrogen: an object of the call
\* (ref is Null), as are its lists
HydrogenNode ==
  [atom |-> [bracket |-> FALSE, element |-> "H", hcount |-> 0, chirality |-> ""],
   bond |-> "-", branchBond |-> NoBond, ringbonds |-> <<>>, branches |-> <<>>,
   next |-> 0, ref |-> Null]

RECURSIVE SortedSeq(_)
SortedSeq(S) ==
  IF S = {} THEN <<>>
  ELSE LET m == CHOOSE x \in S : \A y \in S : x <= y
       IN <<m>> \o SortedSeq(S \ {m})

RECURSIVE IsAbove(_, _, _)
\* node a is node i or one of the nodes above it in the shape s
IsAbove(s, a, i) == i = a \/ (i > 1 /\ IsAbove(s, a, s[i][1]))

\* the shapes of a tree of n nodes: node i > 1 hangs below a smaller node,
\* as a branch or as the chain continuation; a node has at most one next.
\* The nodes are numbered in the order of the walk: a node, its branches,
\* its next
Shapes(n) ==
  {s \in [2..n -> (1..n) \X {"branch", "next"}] :
     /\ \A i \in 2..n : s[i][1] < i
     /\ \A i \in 3..n : IsAbove(s, s[i][1], i - 1)
     /\ \A i, j \in 2..n :
          (i # j /\ s[i][1] = s[j][1] /\ s[i][2] = "next") => (s[j][2] = "branch" /\ j < i)}

ParentOf(s, i) == s[i][1]

\* ring closures: a label joins two nodes that are not bonded in the tree
ClosurePairs(n, s) ==
  {p \in (1..n) \X (1..n) :
     /\ p[1] < p[2]
     /\ ParentOf(s, p[2]) # p[1]}

\* the assignments of at most MaxClosures labels to pairs of nodes, no two
\* labels to the same pair
Closures(n, s) ==
  UNION {{c \in [1..k -> ClosurePairs(n, s)] :
            \A l, m \in 1..k : l # m => c[l] # c[m]} : k \in 0..MaxClosures}

RingbondsOf(c, i) ==
  LET labels == {l \in DOMAIN c : c[l][1] = i \/ c[l][2] = i}
      sorted == SortedSeq(labels)
  IN [k \in 1..Len(sorted) |-> [id |-> sorted[k], bond |-> "-"]]

MkTree(n, s, atoms, inBond, c) ==
  [i \in 1..n |->
     LET nexts == {j \in 2..n : s[j][1] = i /\ s[j][2] = "next"}
         nxt == IF nexts = {} THEN 0 ELSE CHOOSE j \in nexts : TRUE
     IN [atom |-> atoms[i],
         bond |-> IF nxt = 0 THEN "-" ELSE inBond[nxt],
         branchBond |-> IF i > 1 /\ s[i][2] = "branch" THEN inBond[i] ELSE NoBond,
         ringbonds |-> RingbondsOf(c, i),
         branches |-> SortedSeq({j \in 2..n : s[j][1] = i /\ s[j][2] = "branch"}),
         next |-> nxt,
         ref |-> i]]

\* the bonds leading into the nodes 2..n of a tree of shape s
InBonds(n, s) ==
  {b \in [2..n -> ChainBonds \cup BranchBonds] :
     \A i \in 2..n : b[i] \in (IF s[i][2] = "next" THEN ChainBonds ELSE BranchBonds)}

----------------------------------------------------------------------------
(* Graph: src/src/Graph.ts *)

\* the state of a Graph right after the constructor's assignments
NewGraph == [vertices |-> <<>>, edges |-> <<>>, atomIdxToVertexId |-> <<>>, atomIdx |-> 0]

\* node.atom.element ? node.atom.element : node.atom
ElementOf(node) == node.atom.element

\* atom.bracket = node.atom.element ? node.atom : null
BracketOf(node) ==
  IF node.atom.bracket
  THEN [element |-> node.atom.element, hcount |-> node.atom.hcount,
        chirality |-> node.atom.chirality]
  ELSE NoBracket

\* the condition under which _init gives the atom a heavy-atom index
GetsIdx(node, parentVertexId) ==
  ElementOf(node) # "H" \/ (~hasNext(node) /\ parentVertexId = Null)

\* the atom keeps the empty list it was created with
AtomRingbondsEmpty(node) == <<>>

\* atom.ringbonds = node.ringbonds
AtomRingbonds(node) == node.ringbonds

\* atom.ringbonds = node.ringbonds: the atom holds the array of the node, not a
\* copy of it. The array is the one of node ref of the parse tree; Null is an
\* array made in this call
RingbondsRef(node) == node.ref

\* atom.bracket = node.atom.element ? node.atom : null: the atom holds the atom
\* object of the node
BracketRef(node) == IF node.atom.bracket THEN node.ref ELSE Null

\* the counter is incremented before it is read
NewAtomNextIdx(node, parentVertexId, atomIdx) ==
  [element |-> ElementOf(node),
   bondType |-> node.bond,
   idx |-> IF GetsIdx(node, parentVertexId) THEN atomIdx + 1 ELSE Null,
   branchBond |-> node.branchBond,
   ringbonds |-> AtomRingbonds(node),
   ringbondsRef |-> RingbondsRef(node),
   bracket |-> BracketOf(node),
   bracketRef |-> BracketRef(node),
   isStereoCenter |-> FALSE,
   isPartOfAromaticRing |-> FALSE,
   bondCount |-> 0,
   neighbouringElements |-> <<>>]

\* the atom _init builds for a node, with the index the counter gives it
NewAtom(node, parentVertexId, atomIdx) ==
  [element |-> ElementOf(node),
   bondType |-> node.bond,
   idx |-> IF GetsIdx(node, parentVertexId) THEN atomIdx ELSE Null,
   branchBond |-> node.branchBond,
   ringbonds |-> AtomRingbonds(node),
   ringbondsRef |-> RingbondsRef(node),
   bracket |-> BracketOf(node),
   bracketRef |-> BracketRef(node),
   isStereoCenter |-> FALSE,
   isPartOfAromaticRing |-> FALSE,
   bondCount |-> 0,
   neighbouringElements |-> <<>>]

createVertex(atom) ==
  [id |-> 0, value |-> atom, neighbours |-> <<>>, edges |-> <<>>,
   spanningTreeChildren |-> <<>>, parentVertexId |-> Null,
   positioned |-> FALSE, forcePositioned |-> FALSE]

\* Graph.addVertex: the vertex gets the next dense id and is appended
addVertex(g, vertex) ==
  [g EXCEPT !.vertices = Append(@, [vertex EXCEPT !.id = Len(g.vertices)])]

\* Graph.addEdge: the edge gets the next dense id and is appended
addEdge(g, edge) ==
  [g EXCEPT !.edges = Append(@, [edge EXCEPT !.id = Len(g.edges)])]

\* the target is taken to be the number of vertices
NewEdgeTargetLength(parentVertexId, vertexId) ==
  [id |-> 0, sourceId |-> parentVertexId, targetId |-> vertexId + 1, weight |-> 1,
   bondType |-> "", isPartOfAromaticRing |-> FALSE]

\* the edge object _init creates between a vertex and its parent
NewEdge(parentVertexId, vertexId) ==
  [id |-> 0, sourceId |-> parentVertexId, targetId |-> vertexId, weight |-> 1,
   bondType |-> "", isPartOfAromaticRing |-> FALSE]

\* the setBondType of the edge object of _init: the bond type alone
setEdgeBondType(edge, bondType) == [edge EXCEPT !.bondType = bondType]

\* the bond type _init gives the edge to the parent
EdgeBondType(vertex, parentVertex, isBranch) ==
  IF isBranch
  THEN OrElse(vertex.value.branchBond, "-")
  ELSE OrElse(parentVertex.value.bondType, "-")

\* the vertex of a branch is not entered in the spanning-tree children
LinkToParentChainOnly(g, vid, parentVertexId, isBranch) ==
  LET vertex == At(g.vertices, vid)
      parentVertex == At(g.vertices, parentVertexId)
      vertex1 == [vertex EXCEPT
                    !.parentVertexId = parentVertexId,
                    !.value.neighbouringElements = Append(@, parentVertex.value.element)]
      parent1 == [parentVertex EXCEPT
                    !.neighbours = Append(@, vid),
                    !.value.neighbouringElements = Append(@, vertex.value.element),
                    !.spanningTreeChildren = IF isBranch THEN @ ELSE Append(@, vid)]
      edge == setEdgeBondType(NewEdge(parentVertexId, vid),
                              EdgeBondType(vertex1, parent1, isBranch))
      g1 == [g EXCEPT !.vertices[vid + 1] = vertex1,
                      !.vertices[parentVertexId + 1] = parent1]
  IN addEdge(g1, edge)

\* what _init does to the parent and the new vertex when there is a parent
LinkToParent(g, vid, parentVertexId, isBranch) ==
  LET vertex == At(g.vertices, vid)
      parentVertex == At(g.vertices, parentVertexId)
      vertex1 == [vertex EXCEPT
                    !.parentVertexId = parentVertexId,
                    !.value.neighbouringElements = Append(@, parentVertex.value.element)]
      parent1 == [parentVertex EXCEPT
                    !.neighbours = Append(@, vid),
                    !.value.neighbouringElements = Append(@, vertex.value.element),
                    !.spanningTreeChildren = Append(@, vid)]
      edge == setEdgeBondType(NewEdge(parentVertexId, vid),
                              EdgeBondType(vertex1, parent1, isBranch))
      g1 == [g EXCEPT !.vertices[vid + 1] = vertex1,
                      !.vertices[parentVertexId + 1] = parent1]
  IN addEdge(g1, edge)

\* the chirality of the bracket is not asked for
IsStereoAnyBracket(atom) == atom.bracket # NoBracket

\* if (atom.bracket && atom.bracket.chirality)
IsStereo(atom) == atom.bracket # NoBracket /\ atom.bracket.chirality # ""

\* the heavy-atom counter of all the graphs under construction
SharedCounter ==
  LET Count(b) == IF builds[b].pc = "new" THEN 0 ELSE builds[b].graph.atomIdx
  IN Count(1) + Count(2)

\* what one call of _init does before it calls itself, with the counter of the graph
visitOwn(g, node, parentVertexId, isBranch) ==
  LET atom == NewAtom(node, parentVertexId, g.atomIdx)
      g0 == IF atom.idx # Null THEN [g EXCEPT !.atomIdx = @ + 1] ELSE g
      vid == Len(g0.vertices)
      g1 == addVertex(g0, createVertex(atom))
      g2 == IF atom.idx # Null
            THEN [g1 EXCEPT !.atomIdxToVertexId = Append(@, At(g1.vertices, vid).id)]
            ELSE g1
      g3 == IF parentVertexId # Null
            THEN LinkToParent(g2, vid, parentVertexId, isBranch)
            ELSE g2
  IN IF IsStereo(atom)
     THEN [g3 EXCEPT !.vertices[vid + 1].value.isStereoCenter = TRUE]
     ELSE g3

\* the counter is one counter of the program, not a field of the graph
visitSharedCounter(g, node, parentVertexId, isBranch) ==
  visitOwn([g EXCEPT !.atomIdx = SharedCounter], node, parentVertexId, isBranch)

\* _init does not flag the atom of a bracket with a chirality tag
visitUnflagged(g, node, parentVertexId, isBranch) ==
  LET vid == Len(g.vertices)
  IN [visitOwn(g, node, parentVertexId, isBranch) EXCEPT
        !.vertices[vid + 1].value.isStereoCenter = FALSE]

\* what one call of _init does before it calls itself: the atom, the vertex, the
\* link to the parent, the stereo-centre flag
visit(g, node, parentVertexId, isBranch) ==
  LET atom == NewAtom(node, parentVertexId, g.atomIdx)
      g0 == IF atom.idx # Null THEN [g EXCEPT !.atomIdx = @ + 1] ELSE g
      vid == Len(g0.vertices)
      g1 == addVertex(g0, createVertex(atom))
      g2 == IF atom.idx # Null
            THEN [g1 EXCEPT !.atomIdxToVertexId = Append(@, At(g1.vertices, vid).id)]
            ELSE g1
      g3 == IF parentVertexId # Null
            THEN LinkToParent(g2, vid, parentVertexId, isBranch)
            ELSE g2
  IN IF IsStereo(atom)
     THEN [g3 EXCEPT !.vertices[vid + 1].value.isStereoCenter = TRUE]
     ELSE g3

RECURSIVE init(_, _, _, _, _, _)
RECURSIVE stereoLoop(_, _, _, _, _)
RECURSIVE branchLoop(_, _, _, _, _, _)

\* Graph._init(node, order, parentVertexId, isBranch) on the graph g
init(g, tree, node, order, parentVertexId, isBranch) ==
  LET vid == Len(g.vertices)
      g3 == visit(g, node, parentVertexId, isBranch)
      atom == At(g3.vertices, vid).value
      hasBracket == atom.bracket # NoBracket
      offset == ringbondCount(node) + 1 + (IF hasBracket THEN atom.bracket.hcount ELSE 0)
      g4 == IF IsStereo(atom)
            THEN stereoLoop(g3, tree, 0, atom.bracket.hcount, vid)
            ELSE g3
      g5 == branchLoop(g4, tree, node, 0, offset, vid)
  IN IF hasNext(node)
     THEN init(g5, tree, tree[node.next], branchCount(node) + offset, vid, FALSE)
     ELSE g5

\* for (let i = 0; i < stereoHydrogens; i++) this._init(H, i, vertex.id, true)
stereoLoop(g, tree, i, stereoHydrogens, vid) ==
  IF i < stereoHydrogens
  THEN stereoLoop(init(g, tree, HydrogenNode, i, vid, TRUE), tree, i + 1, stereoHydrogens, vid)
  ELSE g

\* for (let i = 0; i < node.branchCount; i++) this._init(node.branches[i], ...)
branchLoop(g, tree, node, i, offset, vid) ==
  IF i < branchCount(node)
  THEN branchLoop(init(g, tree, tree[At(node.branches, i)], i + offset, vid, TRUE),
                  tree, node, i + 1, offset, vid)
  ELSE g

\* new Graph(parseTree)
Construct(tree) == init(NewGraph, tree, tree[1], 0, Null, FALSE)

----------------------------------------------------------------------------
(* Closing the ring bonds: the step that turns the spanning tree into the   *)
(* graph. The vertices are visited in id order; the first occurrence of a   *)
(* label opens a pending closure, the second closes it with a new edge.     *)

\* the pending closures without the label l
Without(open, l) == [k \in DOMAIN open \ {l} |-> open[k]]

\* the edge that closes a ring between the visited vertex and the pending one
RingbondEdge(vertexId, pending, ringbond) ==
  setBondType(Edge(vertexId, pending.vertexId, 1),
              OrElse(pending.bond, OrElse(ringbond.bond, "-")))

\* the two endpoints of a closed ring bond become neighbours of each other
addRingbondChild(g, a, b) ==
  [g EXCEPT !.vertices[a + 1].neighbours = Append(@, b),
            !.vertices[b + 1].neighbours = Append(@, a)]

RECURSIVE closeLoop(_, _, _, _)
closeLoop(g, open, v, j) ==
  IF v >= Len(g.vertices) THEN g
  ELSE LET ringbonds == At(g.vertices, v).value.ringbonds
       IN IF j >= Len(ringbonds) THEN closeLoop(g, open, v + 1, 0)
          ELSE LET ringbond == At(ringbonds, j)
               IN IF ringbond.id \notin DOMAIN open
                  THEN closeLoop(g, open @@ (ringbond.id :> [vertexId |-> v, bond |-> ringbond.bond]),
                                 v, j + 1)
                  ELSE LET pending == open[ringbond.id]
                           g1 == addEdge(addRingbondChild(g, v, pending.vertexId),
                                         RingbondEdge(v, pending, ringbond))
                       IN closeLoop(g1, Without(open, ringbond.id), v, j + 1)

closeRingbonds(g) == closeLoop(g, <<>>, 0, 0)

----------------------------------------------------------------------------
(* RingConnection: src/src/RingConnection.ts *)

Range(seq) == {seq[k] : k \in 1..Len(seq)}

\* Set.add on a set kept in insertion order
SetAdd(set, x) == IF x \in Range(set) THEN set ELSE Append(set, x)

\* RingConnection.addVertex
rcAddVertex(rc, vertexId) == [rc EXCEPT !.vertices = SetAdd(@, vertexId)]

RECURSIVE innerLoopFromOne(_, _, _, _)
\* the inner loop, were it to start at the second member of the second ring
innerLoopFromOne(rc, c, secondRing, n) ==
  IF n = 0 THEN innerLoopFromOne(rc, c, secondRing, 1)
  ELSE IF n < Len(secondRing.members)
  THEN LET d == At(secondRing.members, n)
       IN innerLoopFromOne(IF c = d THEN rcAddVertex(rc, c) ELSE rc, c, secondRing, n + 1)
  ELSE rc

RECURSIVE innerLoop(_, _, _, _)
\* for (let n = 0; n < secondRing.members.length; n++) if (c === d) addVertex(c)
innerLoop(rc, c, secondRing, n) ==
  IF n < Len(secondRing.members)
  THEN LET d == At(secondRing.members, n)
       IN innerLoop(IF c = d THEN rcAddVertex(rc, c) ELSE rc, c, secondRing, n + 1)
  ELSE rc

RECURSIVE outerLoop(_, _, _, _)
\* for (let m = 0; m < firstRing.members.length; m++)
outerLoop(rc, firstRing, secondRing, m) ==
  IF m < Len(firstRing.members)
  THEN outerLoop(innerLoop(rc, At(firstRing.members, m), secondRing, 0),
                 firstRing, secondRing, m + 1)
  ELSE rc

\* new RingConnection(firstRing, secondRing)
RingConnection(firstRing, secondRing) ==
  outerLoop([id |-> Null, firstRingId |-> firstRing.id, secondRingId |-> secondRing.id,
             vertices |-> <<>>],
            firstRing, secondRing, 0)

\* RingConnection.containsRing
containsRing(rc, ringId) == rc.firstRingId = ringId \/ rc.secondRingId = ringId

RECURSIVE bridgeLoopMoreThanOne(_, _, _)
\* a vertex of two rings is taken for a vertex of a bridge
bridgeLoopMoreThanOne(rc, vertices, k) ==
  IF k < Len(rc.vertices)
  THEN IF Len(vertices[At(rc.vertices, k)].value.rings) > 1
       THEN TRUE
       ELSE bridgeLoopMoreThanOne(rc, vertices, k + 1)
  ELSE FALSE

RECURSIVE bridgeLoop(_, _, _)
\* for (let vertexId of this.vertices) if (rings.length > 2) return true
bridgeLoop(rc, vertices, k) ==
  IF k < Len(rc.vertices)
  THEN IF Len(vertices[At(rc.vertices, k)].value.rings) > 2
       THEN TRUE
       ELSE bridgeLoop(rc, vertices, k + 1)
  ELSE FALSE

\* two shared vertices are taken for a bridge
isBridgeAtLeastTwo(rc, vertices) ==
  IF Len(rc.vertices) >= 2 THEN TRUE ELSE bridgeLoop(rc, vertices, 0)

\* RingConnection.isBridge(vertices)
isBridge(rc, vertices) ==
  IF Len(rc.vertices) > 2 THEN TRUE ELSE bridgeLoop(rc, vertices, 0)

\* the connection is looked for in one order of the two rings alone
JoinsInOrder(ringConnection, firstRingId, secondRingId) ==
  ringConnection.firstRingId = firstRingId /\ ringConnection.secondRingId = secondRingId

\* the test of the static isBridge: the connection joins the two rings
Joins(ringConnection, firstRingId, secondRingId) ==
  \/ ringConnection.firstRingId = firstRingId /\ ringConnection.secondRingId = secondRingId
  \/ ringConnection.firstRingId = secondRingId /\ ringConnection.secondRingId = firstRingId

RECURSIVE staticLoop(_, _, _, _, _)
staticLoop(rcs, vertices, firstRingId, secondRingId, i) ==
  IF i < Len(rcs)
  THEN IF Joins(At(rcs, i), firstRingId, secondRingId)
       THEN isBridge(At(rcs, i), vertices)
       ELSE staticLoop(rcs, vertices, firstRingId, secondRingId, i + 1)
  ELSE FALSE

\* static RingConnection.isBridge(ringConnections, vertices, firstRingId, secondRingId)
staticIsBridge(rcs, vertices, firstRingId, secondRingId) ==
  staticLoop(rcs, vertices, firstRingId, secondRingId, 0)

----------------------------------------------------------------------------
(* The rings of a molecule and its ring connections. Ring perception hands  *)
(* over the rings; a vertex lists the ids of the rings it is a member of;   *)
(* every pair of rings that shares a vertex gets a ring connection.         *)

\* the sizes of the rings of the inputs
RingSizes == {3, 6}

Used == UNION {Range(rings[i].members) : i \in 1..Len(rings)}

\* the rings a vertex is a member of
Sig(v) == {i \in 1..Len(rings) : v \in Range(rings[i].members)}

\* the vertices with the same ring memberships
Regions == {{u \in Used : Sig(u) = Sig(v)} : v \in Used}

Lowest(R, k) == {v \in R : Cardinality({u \in R : u < v}) < k}

Min(a, b) == IF a < b THEN a ELSE b

RECURSIVE Picks(_, _)
\* the ways to take at most budget vertices, the lowest of each class
Picks(Rs, budget) ==
  IF Rs = {} THEN {{}}
  ELSE LET R == CHOOSE x \in Rs : TRUE
       IN UNION {{Lowest(R, k) \cup P : P \in Picks(Rs \ {R}, budget - k)} :
                   k \in 0..Min(budget, Cardinality(R))}

\* the vertices of a molecule: each lists the ids of its rings
RingVertices ==
  [v \in Used |-> [value |-> [rings |-> SortedSeq({i - 1 : i \in Sig(v)})]]]

RECURSIVE pairLoop(_, _, _, _)
\* every pair i < j of rings: a connection when they share a vertex
pairLoop(rs, rcs, i, j) ==
  IF i >= Len(rs) - 1 THEN rcs
  ELSE IF j >= Len(rs) THEN pairLoop(rs, rcs, i + 1, i + 2)
  ELSE LET ringConnection == RingConnection(At(rs, i), At(rs, j))
       IN pairLoop(rs,
                   IF Len(ringConnection.vertices) > 0
                   THEN Append(rcs, [ringConnection EXCEPT !.id = Len(rcs)])
                   ELSE rcs,
                   i, j + 1)

InitRings ==
  /\ rings = <<>>
  /\ ringConnections = <<>>
  /\ rpc = "rings"

InitGraphIdle ==
  /\ parseTree = <<>>
  /\ graph = NewGraph
  /\ pc = "idle"

\* ring perception finds one more ring: it takes the lowest vertices of some
\* classes of vertices of the rings before it, and fresh vertices
AddRing ==
  /\ rpc = "rings"
  /\ Len(rings) < MaxRings
  /\ \E size \in RingSizes :
       \E shared \in Picks(Regions, Min(MaxShared, size)) :
         LET first == Cardinality(Used)
             fresh == first..(first + size - Cardinality(shared) - 1)
             members == SortedSeq(shared) \o SortedSeq(fresh)
         IN /\ \A i \in 1..Len(rings) : Range(rings[i].members) # Range(members)
            /\ rings' = Append(rings, [id |-> Len(rings), members |-> members])
  /\ UNCHANGED <<ringConnections, rpc>>

\* the ring connections of the molecule are created
CreateRingConnections ==
  /\ rpc = "rings"
  /\ Len(rings) > 0
  /\ ringConnections' = pairLoop(rings, <<>>, 0, 1)
  /\ rpc' = "connected"
  /\ UNCHANGED rings

NextRings ==
  \/ AddRing /\ UNCHANGED <<graphVars, restVars>>
  \/ CreateRingConnections /\ UNCHANGED <<graphVars, restVars>>

InitRingSystem == InitGraphIdle /\ InitRings /\ InitRestIdle

SpecRings == InitRingSystem /\ [][NextRings]_vars

----------------------------------------------------------------------------
(* Drawer: src/src/Drawer.ts. The drawer hands every call to its SvgDrawer,  *)
(* whose layout engine works through the phases of the layout: the tree is  *)
(* placed, the rings are placed, the overlaps are resolved in a bounded     *)
(* number of iterations, the stereo bonds are adjusted.  The geometry is    *)
(* not modelled: the overlap score of a layout is a number the geometry     *)
(* gives, any of 0..MaxScore.                                               *)

Phases ==
  <<"UNPLACED", "TREE_PLACED", "RING_PLACED", "OVERLAP_RESOLVED", "STEREO_ADJUSTED", "DONE">>

\* the SvgDrawer a Drawer creates: nothing has been laid out
NewSvgDrawer(options) ==
  [opts |-> options, phase |-> "", log |-> <<>>, iteration |-> 0,
   totalOverlapScore |-> 0, scores |-> <<>>, stable |-> FALSE]

\* new Drawer(options)
NewDrawer(options) ==
  [svgDrawer |-> NewSvgDrawer(options), pc |-> "ready", draws |-> 0, canvas |-> 0]

\* the layout enters a phase
enter(svgDrawer, phase) ==
  [svgDrawer EXCEPT !.phase = phase, !.log = Append(@, phase)]

\* SvgDrawer.draw starts a layout of its own: nothing is placed
svgDraw(svgDrawer) ==
  enter([svgDrawer EXCEPT !.log = <<>>, !.iteration = 0, !.totalOverlapScore = 0,
                          !.scores = <<>>, !.stable = FALSE],
        "UNPLACED")

\* the call is not handed to the SvgDrawer
drawWithoutLayout(drawer) ==
  [drawer EXCEPT !.pc = "drawing", !.draws = @ + 1]

\* Drawer.draw up to the return of this.svgDrawer.draw
draw(drawer) ==
  [drawer EXCEPT !.pc = "drawing", !.draws = @ + 1, !.svgDrawer = svgDraw(@)]

\* the vertices are placed along the spanning tree
placeTree(svgDrawer) == enter(svgDrawer, "TREE_PLACED")

\* the rings are placed; the layout has the overlap score the geometry gives it
placeRings(svgDrawer, score) ==
  enter([svgDrawer EXCEPT !.totalOverlapScore = score, !.scores = <<score>>], "RING_PLACED")

\* a rotation or mirror of a subtree is kept when it raises the score
keptWhenWorse(svgDrawer, score) == score > svgDrawer.totalOverlapScore

\* a rotation or mirror of a subtree is kept when it reduces the total score
kept(svgDrawer, score) == score < svgDrawer.totalOverlapScore

\* one iteration of the overlap resolution: the score of the rotated or
\* mirrored layout is compared with the total score
overlapIteration(svgDrawer, score) ==
  LET total == IF kept(svgDrawer, score) THEN score ELSE svgDrawer.totalOverlapScore
  IN [svgDrawer EXCEPT !.iteration = @ + 1,
                       !.stable = (total = svgDrawer.totalOverlapScore),
                       !.totalOverlapScore = total,
                       !.scores = Append(@, total)]

\* the loop goes on after the budget is used up
loopGoesOnPastBudget(svgDrawer) ==
  svgDrawer.iteration <= svgDrawer.opts.overlapResolutionIterations /\ ~svgDrawer.stable

\* the loop goes on while the budget lasts and the score has not stabilized
loopGoesOn(svgDrawer) ==
  svgDrawer.iteration < svgDrawer.opts.overlapResolutionIterations /\ ~svgDrawer.stable

\* the first score of the layout is returned
getTotalOverlapScoreFirst(drawer) ==
  IF drawer.svgDrawer.scores = <<>> THEN 0 ELSE drawer.svgDrawer.scores[1]

\* Drawer.getTotalOverlapScore
getTotalOverlapScore(drawer) == drawer.svgDrawer.totalOverlapScore

InitLayout ==
  /\ parseTree = <<>> /\ graph = NewGraph /\ pc = Idle
  /\ rings = <<>> /\ ringConnections = <<>> /\ rpc = Idle
  /\ builds = Idle /\ pseudoAtom = Idle /\ call = Idle
  /\ InitMoreIdle
  /\ \E iterations \in 0..MaxIterations :
       layout = NewDrawer([overlapResolutionIterations |-> iterations])

otherThanLayout == <<graphVars, ringVars, builds, pseudoAtom, call, moreVars>>

\* Drawer.draw is called
Draw ==
  /\ layout.pc = "ready"
  /\ layout.draws < MaxDraws
  /\ layout' = draw(layout)

PlaceTree ==
  /\ layout.pc = "drawing"
  /\ layout.svgDrawer.phase = "UNPLACED"
  /\ layout' = [layout EXCEPT !.svgDrawer = placeTree(@)]

PlaceRings ==
  /\ layout.pc = "drawing"
  /\ layout.svgDrawer.phase = "TREE_PLACED"
  /\ \E score \in 0..MaxScore :
       layout' = [layout EXCEPT !.svgDrawer = placeRings(@, score)]

OverlapIteration ==
  /\ layout.pc = "drawing"
  /\ layout.svgDrawer.phase = "RING_PLACED"
  /\ loopGoesOn(layout.svgDrawer)
  /\ \E score \in 0..MaxScore :
       layout' = [layout EXCEPT !.svgDrawer = overlapIteration(@, score)]

EndOverlap ==
  /\ layout.pc = "drawing"
  /\ layout.svgDrawer.phase = "RING_PLACED"
  /\ ~loopGoesOn(layout.svgDrawer)
  /\ layout' = [layout EXCEPT !.svgDrawer = enter(@, "OVERLAP_RESOLVED")]

AdjustStereo ==
  /\ layout.pc = "drawing"
  /\ layout.svgDrawer.phase = "OVERLAP_RESOLVED"
  /\ layout' = [layout EXCEPT !.svgDrawer = enter(@, "STEREO_ADJUSTED")]

Finish ==
  /\ layout.pc = "drawing"
  /\ layout.svgDrawer.phase = "STEREO_ADJUSTED"
  /\ layout' = [layout EXCEPT !.svgDrawer = enter(@, "DONE")]

\* this.svgDrawer.draw has returned: the drawing goes to the canvas and
\* Drawer.draw returns
ToCanvas ==
  /\ layout.pc = "drawing"
  /\ layout.svgDrawer.phase = "DONE"
  /\ layout' = [layout EXCEPT !.pc = "ready", !.canvas = @ + 1]

\* the steps of a draw in progress
LayoutStep ==
  \/ PlaceTree /\ UNCHANGED otherThanLayout
  \/ PlaceRings /\ UNCHANGED otherThanLayout
  \/ OverlapIteration /\ UNCHANGED otherThanLayout
  \/ EndOverlap /\ UNCHANGED otherThanLayout
  \/ AdjustStereo /\ UNCHANGED otherThanLayout
  \/ Finish /\ UNCHANGED otherThanLayout
  \/ ToCanvas /\ UNCHANGED otherThanLayout

NextLayout ==
  \/ Draw /\ UNCHANGED otherThanLayout
  \/ LayoutStep

SpecLayout == InitLayout /\ [][NextLayout]_vars

\* a draw runs to its end: the program is synchronous
SpecLayoutFair == InitLayout /\ [][NextLayout]_vars /\ WF_vars(LayoutStep)

----------------------------------------------------------------------------
(* The state machine of one graph *)

\* no graph has been constructed
InitGraph ==
  /\ parseTree = <<>>
  /\ graph = NewGraph
  /\ pc = "new"

\* new Graph(parseTree): the constructor walks a parse tree of at most
\* MaxNodes atom nodes, which the parser hands over
Build ==
  /\ pc = "new"
  /\ \E n \in 1..MaxNodes :
       \E s \in Shapes(n) :
         \E atoms \in [1..n -> AtomKinds], inBond \in InBonds(n, s), c \in Closures(n, s) :
           /\ parseTree' = MkTree(n, s, atoms, inBond, c)
           /\ graph' = Construct(parseTree')
  /\ pc' = "built"

InitRingsIdle ==
  /\ rings = <<>>
  /\ ringConnections = <<>>
  /\ rpc = "idle"

Init == InitGraph /\ InitRingsIdle /\ InitRestIdle

\* the ring bonds are closed
CloseRingbonds ==
  /\ pc = "built"
  /\ graph' = closeRingbonds(graph)
  /\ pc' = "closed"
  /\ UNCHANGED parseTree

Next ==
  \/ Build /\ UNCHANGED <<ringVars, restVars>>
  \/ CloseRingbonds /\ UNCHANGED <<ringVars, restVars>>

Spec == Init /\ [][Next]_vars

----------------------------------------------------------------------------
(* Atom: src/src/Atom.ts, and the molecular formula.  An atom collects the  *)
(* terminal groups that are collapsed into it as pseudo elements, keyed by  *)
(* hydrogen count, element and charge; the collapsed atoms stay atoms of    *)
(* the molecule.  The formula counts the elements of the atoms and the      *)
(* hydrogens of the pseudo elements.                                        *)

\* the element symbols of the inputs
Elements == {"C", "c", "O", "Br"}

\* String.toUpperCase on the symbols of the inputs
toUpperCase(element) ==
  CASE element = "c" -> "C"
    [] element = "n" -> "N"
    [] element = "o" -> "O"
    [] OTHER -> element

\* the length of a symbol of the inputs
SymbolLength(element) == IF element = "Br" THEN 2 ELSE 1

\* new Atom(element, bondType)
Atom(element, bondType) ==
  LET upper == IF SymbolLength(element) = 1 THEN toUpperCase(element) ELSE element
  IN [idx |-> Null, element |-> upper, drawExplicit |-> FALSE, ringbonds |-> <<>>,
      rings |-> <<>>, bondType |-> bondType, branchBond |-> NoBond, bracket |-> NoBracket,
      attachedPseudoElements |-> <<>>, hasAttachedPseudoElements |-> FALSE,
      isDrawn |-> TRUE, neighbouringElements |-> <<>>,
      isPartOfAromaticRing |-> (element # upper), bondCount |-> 0, chirality |-> "",
      isStereoCenter |-> FALSE]

\* the key of a pseudo element: `${hydrogenCount}${element}${charge}`; the symbol
\* stands between the two numbers, so the three parts give the key and the key
\* gives the three parts
PseudoKey(hydrogenCount, element, charge) == <<hydrogenCount, element, charge>>

\* a repeated pseudo element starts at count 1 again
attachPseudoElementAnew(a, element, previousElement, hydrogenCount, charge) ==
  LET h == IF hydrogenCount = Null THEN 0 ELSE hydrogenCount
      c == IF charge = Null THEN 0 ELSE charge
      key == PseudoKey(h, element, c)
      fresh == [element |-> element, count |-> 1, hydrogenCount |-> h,
                previousElement |-> previousElement, charge |-> c]
  IN [a EXCEPT
        !.attachedPseudoElements =
           IF key \in DOMAIN @ THEN [@ EXCEPT ![key] = fresh] ELSE @ @@ (key :> fresh),
        !.hasAttachedPseudoElements = TRUE]

\* Atom.attachPseudoElement
attachPseudoElement(a, element, previousElement, hydrogenCount, charge) ==
  LET h == IF hydrogenCount = Null THEN 0 ELSE hydrogenCount
      c == IF charge = Null THEN 0 ELSE charge
      key == PseudoKey(h, element, c)
  IN [a EXCEPT
        !.attachedPseudoElements =
           IF key \in DOMAIN @
           THEN [@ EXCEPT ![key].count = @ + 1]
           ELSE @ @@ (key :> [element |-> element, count |-> 1, hydrogenCount |-> h,
                              previousElement |-> previousElement, charge |-> c]),
        !.hasAttachedPseudoElements = TRUE]

\* the element symbols in alphabetical order
Alphabet == <<"Br", "C", "H", "N", "O">>

RECURSIVE SumOf(_, _)
\* the sum of f over the finite set S
SumOf(f, S) ==
  IF S = {} THEN 0
  ELSE LET x == CHOOSE y \in S : TRUE IN f[x] + SumOf(f, S \ {x})

\* the hydrogens of the pseudo elements of an atom
PseudoHydrogens(a) ==
  SumOf([key \in DOMAIN a.attachedPseudoElements |->
           a.attachedPseudoElements[key].count * a.attachedPseudoElements[key].hydrogenCount],
        DOMAIN a.attachedPseudoElements)

\* the number of occurrences of an element in a molecule
counts(atoms, element) ==
  Cardinality({i \in 1..Len(atoms) : atoms[i].element = element})
    + (IF element = "H"
       THEN SumOf([i \in 1..Len(atoms) |-> PseudoHydrogens(atoms[i])], 1..Len(atoms))
       ELSE 0)

RECURSIVE formulaLoop(_, _, _)
\* the elements other than C and H, in alphabetical order
formulaLoop(atoms, formula, k) ==
  IF k > Len(Alphabet) THEN formula
  ELSE LET element == Alphabet[k]
       IN formulaLoop(atoms,
                      IF element \notin {"C", "H"} /\ counts(atoms, element) > 0
                      THEN Append(formula, [element |-> element, count |-> counts(atoms, element)])
                      ELSE formula,
                      k + 1)

\* the molecular formula of the SvgDrawer: carbon, hydrogen, then the others
molecularFormula(atoms) ==
  LET carbon == IF counts(atoms, "C") > 0
                THEN <<[element |-> "C", count |-> counts(atoms, "C")]>> ELSE <<>>
      hydrogen == IF counts(atoms, "H") > 0
                  THEN <<[element |-> "H", count |-> counts(atoms, "H")]>> ELSE <<>>
  IN formulaLoop(atoms, carbon \o hydrogen, 1)

\* Drawer.getMolecularFormula
getMolecularFormula(atoms) == molecularFormula(atoms)

InitFormula ==
  /\ parseTree = <<>> /\ graph = NewGraph /\ pc = Idle
  /\ rings = <<>> /\ ringConnections = <<>> /\ rpc = Idle
  /\ layout = Idle /\ builds = Idle /\ call = Idle
  /\ InitMoreIdle
  /\ pseudoAtom = [atoms |-> <<>>, groups |-> 0, hydrogens |-> 0]

otherThanFormula == <<graphVars, ringVars, layout, builds, call, moreVars>>

\* the molecule has one more atom
AddAtom ==
  /\ Len(pseudoAtom.atoms) < MaxAtoms
  /\ pseudoAtom.groups = 0
  /\ \E element \in Elements :
       pseudoAtom' = [pseudoAtom EXCEPT !.atoms = Append(@, Atom(element, "-"))]

\* a terminal atom j with its hydrogens is collapsed into its neighbour i
Collapse ==
  \E i, j \in 1..Len(pseudoAtom.atoms) :
    /\ i # j
    /\ pseudoAtom.atoms[i].isDrawn
    /\ pseudoAtom.atoms[j].isDrawn
    /\ ~pseudoAtom.atoms[j].hasAttachedPseudoElements
    /\ \E hydrogenCount \in {Null} \cup 0..MaxHydrogens, charge \in {Null, 1} :
         pseudoAtom' =
           [atoms |-> [pseudoAtom.atoms EXCEPT
                         ![i] = attachPseudoElement(@, pseudoAtom.atoms[j].element,
                                                    pseudoAtom.atoms[i].element,
                                                    hydrogenCount, charge),
                         ![j].isDrawn = FALSE],
            groups |-> pseudoAtom.groups + 1,
            hydrogens |-> pseudoAtom.hydrogens
                            + (IF hydrogenCount = Null THEN 0 ELSE hydrogenCount)]

NextFormula ==
  \/ AddAtom /\ UNCHANGED otherThanFormula
  \/ Collapse /\ UNCHANGED otherThanFormula

SpecFormula == InitFormula /\ [][NextFormula]_vars

----------------------------------------------------------------------------
(* The wedges of the stereo centres.  The edges _init creates have no wedge *)
(* field; the edges of the class Edge have wedge = "".  The step that gives *)
(* the wedges is the last phase of the layout: every vertex flagged as a    *)
(* stereo centre gets a wedge on one of its bonds that are not ring bonds.  *)

\* a bracket atom with a chirality tag and no hydrogen
ChiralC == [bracket |-> TRUE, element |-> "C", hcount |-> 0, chirality |-> "@@"]

\* the atoms of the parse trees of the molecules with stereo centres
StereoKinds == {PlainC, ChiralCH, ChiralC}

\* the nodes of a parse tree with a chirality tag
Tags(tree) == {i \in 1..Len(tree) : tree[i].atom.chirality # ""}

\* edge.wedge as JavaScript reads it
wedge(edge) == IF "wedge" \in DOMAIN edge THEN edge.wedge ELSE "undefined"

\* edge.wedge = direction
setWedge(edge, direction) ==
  [f \in DOMAIN edge \cup {"wedge"} |-> IF f = "wedge" THEN direction ELSE edge[f]]

RECURSIVE Reach(_, _, _)
\* the vertices joined to the vertices seen by edges other than edge skip
Reach(g, skip, seen) ==
  LET more == {w \in 0..(Len(g.vertices) - 1) :
                 \E k \in 1..Len(g.edges) :
                   /\ k # skip
                   /\ \/ g.edges[k].sourceId \in seen /\ g.edges[k].targetId = w
                      \/ g.edges[k].targetId \in seen /\ g.edges[k].sourceId = w}
  IN IF more \subseteq seen THEN seen ELSE Reach(g, skip, seen \cup more)

\* edge k is a bond of a ring: its two vertices are joined without it
IsRingBond(g, k) == g.edges[k].targetId \in Reach(g, k, {g.edges[k].sourceId})

\* the edges at the vertex v
IncidentTo(g, v) ==
  {k \in 1..Len(g.edges) : g.edges[k].sourceId = v \/ g.edges[k].targetId = v}

\* the vertices flagged as stereo centres that have a bond to put a wedge on
Stereocenters(g) ==
  {v \in 0..(Len(g.vertices) - 1) :
     /\ At(g.vertices, v).value.isStereoCenter
     /\ \E k \in IncidentTo(g, v) : ~IsRingBond(g, k)}

\* the ways to pick, for every stereo centre, one of its bonds that is not a ring
\* bond and a direction
WedgeChoices(g) ==
  {f \in [Stereocenters(g) -> (1..Len(g.edges)) \X {"up", "down"}] :
     \A v \in Stereocenters(g) : f[v][1] \in IncidentTo(g, v) /\ ~IsRingBond(g, f[v][1])}

\* the wedges are set
annotateStereochemistry(g, f) ==
  [g EXCEPT !.edges =
     [k \in 1..Len(g.edges) |->
        IF \E v \in DOMAIN f : f[v][1] = k
        THEN setWedge(g.edges[k], f[CHOOSE v \in DOMAIN f : f[v][1] = k][2])
        ELSE g.edges[k]]]

\* new Graph(parseTree) for a molecule with at most one chirality tag
BuildStereo ==
  /\ pc = "new"
  /\ \E n \in 1..MaxNodes :
       \E s \in Shapes(n) :
         \E atoms \in [1..n -> StereoKinds], inBond \in InBonds(n, s), c \in Closures(n, s) :
           /\ Cardinality({i \in 1..n : atoms[i].chirality # ""}) <= 1
           /\ parseTree' = MkTree(n, s, atoms, inBond, c)
           /\ graph' = Construct(parseTree')
  /\ pc' = "built"

\* the last phase of the layout gives the wedges
AnnotateStereo ==
  /\ pc = "closed"
  /\ \E f \in WedgeChoices(graph) : graph' = annotateStereochemistry(graph, f)
  /\ pc' = "done"
  /\ UNCHANGED parseTree

NextStereo ==
  \/ BuildStereo /\ UNCHANGED <<ringVars, restVars>>
  \/ CloseRingbonds /\ UNCHANGED <<ringVars, restVars>>
  \/ AnnotateStereo /\ UNCHANGED <<ringVars, restVars>>

SpecStereo == Init /\ [][NextStereo]_vars

----------------------------------------------------------------------------
(* Two graphs under construction.  _init is a recursion; a build is kept    *)
(* here as the graph so far and the calls of _init still to be made, first  *)
(* call first, so that the calls of two builds can be taken in any order.   *)

\* the atoms of the parse trees two graphs are built from
BuildKinds == {BracketH, ChiralCH}

\* their bonds: every chain bond a double bond, every branch bond a triple bond
BuildBonds(n, s) == [i \in 2..n |-> IF s[i][2] = "next" THEN "=" ELSE "#"]

\* a call of _init that is still to be made
Frame(node, order, parentVertexId, isBranch) ==
  [node |-> node, order |-> order, parentVertexId |-> parentVertexId, isBranch |-> isBranch]

\* the calls a call of _init makes for the vertex vid it has created, in their
\* order: the stereo hydrogens, the branches, the next node
calls(tree, node, atom, vid) ==
  LET hasBracket == atom.bracket # NoBracket
      offset == ringbondCount(node) + 1 + (IF hasBracket THEN atom.bracket.hcount ELSE 0)
      stereoHydrogens == IF IsStereo(atom) THEN atom.bracket.hcount ELSE 0
      hydrogens == [i \in 1..stereoHydrogens |-> Frame(HydrogenNode, i - 1, vid, TRUE)]
      branches == [i \in 1..branchCount(node) |->
                     Frame(tree[At(node.branches, i - 1)], i - 1 + offset, vid, TRUE)]
      next == IF hasNext(node)
              THEN <<Frame(tree[node.next], branchCount(node) + offset, vid, FALSE)>>
              ELSE <<>>
  IN hydrogens \o branches \o next

\* a graph that is to be built from the parse tree object tree
NewBuild(tree) == [tree |-> tree, graph |-> NewGraph, stack |-> <<>>, pc |-> "new"]

InitBuilds ==
  /\ parseTree = <<>> /\ graph = NewGraph /\ pc = Idle
  /\ rings = <<>> /\ ringConnections = <<>> /\ rpc = Idle
  /\ layout = Idle /\ pseudoAtom = Idle /\ call = Idle
  /\ InitMoreIdle
  /\ builds = <<>>

otherThanBuilds == <<graph, pc, ringVars, layout, pseudoAtom, call, moreVars>>

\* the parser hands over the parse tree of the input; two graphs are to be built
\* from it: both from this parse tree object, or the second from the parse tree
\* of a second parse of the same input
ParseInput ==
  /\ builds = <<>>
  /\ \E n \in 1..MaxNodes :
       \E s \in Shapes(n) :
         \E atoms \in [1..n -> BuildKinds], c \in Closures(n, s) :
           parseTree' = MkTree(n, s, atoms, BuildBonds(n, s), c)
  /\ \E tree \in 1..2 : builds' = <<NewBuild(1), NewBuild(tree)>>

\* new Graph(parseTree): the assignments of the constructor and its call of _init
StartBuild(b) ==
  /\ builds[b].pc = "new"
  /\ builds' = [builds EXCEPT ![b] = [@ EXCEPT !.graph = NewGraph,
                                                !.stack = <<Frame(parseTree[1], 0, Null, FALSE)>>,
                                                !.pc = "init"]]
  /\ UNCHANGED parseTree

\* the next call of _init of a build
InitCall(b) ==
  /\ builds[b].pc = "init"
  /\ LET f == Head(builds[b].stack)
          vid == Len(builds[b].graph.vertices)
          g == visit(builds[b].graph, f.node, f.parentVertexId, f.isBranch)
          stack == calls(parseTree, f.node, At(g.vertices, vid).value, vid)
                     \o Tail(builds[b].stack)
     IN builds' = [builds EXCEPT ![b] = [@ EXCEPT !.graph = g, !.stack = stack,
                                                   !.pc = IF stack = <<>> THEN "done" ELSE "init"]]
  /\ UNCHANGED parseTree

NextBuilds ==
  \/ ParseInput /\ UNCHANGED otherThanBuilds
  \/ \E b \in 1..Len(builds) : StartBuild(b) /\ UNCHANGED otherThanBuilds
  \/ \E b \in 1..Len(builds) : InitCall(b) /\ UNCHANGED otherThanBuilds

SpecBuilds == InitBuilds /\ [][NextBuilds]_vars

----------------------------------------------------------------------------
(* The aromatic atoms.  The parser hands an aromatic atom over with its     *)
(* lower-case symbol.                                                       *)

AromaticC == [bracket |-> FALSE, element |-> "c", hcount |-> 0, chirality |-> ""]

AromaticNH == [bracket |-> TRUE, element |-> "n", hcount |-> 1, chirality |-> ""]

AromaticKinds == {PlainC, AromaticC, BracketNH, AromaticNH}

\* new Graph(parseTree) for a molecule that may have aromatic atoms
BuildAromatic ==
  /\ pc = "new"
  /\ \E n \in 1..MaxNodes :
       \E s \in Shapes(n) :
         \E atoms \in [1..n -> AromaticKinds], c \in Closures(n, s) :
           /\ parseTree' = MkTree(n, s, atoms, BuildBonds(n, s), c)
           /\ graph' = Construct(parseTree')
  /\ pc' = "built"

NextAromatic ==
  \/ BuildAromatic /\ UNCHANGED <<ringVars, restVars>>
  \/ CloseRingbonds /\ UNCHANGED <<ringVars, restVars>>

SpecAromatic == Init /\ [][NextAromatic]_vars

----------------------------------------------------------------------------
(* SmilesDrawer.parse: src/src/app.js.  The parser either returns a parse   *)
(* tree or throws; the callbacks are the caller's and may be left out, may  *)
(* return or may throw.                                                     *)

\* the inputs: two the parser accepts and two it rejects
Smiles == {"C", "C1CC1", "C(", "C1CC"}

Rejected == {"C(", "C1CC"}

\* Parser.parse: the parse tree, or the error thrown
ParserParse(smiles) ==
  IF smiles \in Rejected
  THEN [thrown |-> TRUE, value |-> [name |-> "SyntaxError", input |-> smiles]]
  ELSE [thrown |-> FALSE, value |-> [tree |-> smiles]]

\* a callback argument of parse: left out, a function that returns, a function that throws
Callbacks == {"none", "returns", "throws"}

\* the call of a callback: what it got, and the error it throws if it does
Invoke(name, callback, arg) ==
  [ran |-> <<[callback |-> name, arg |-> arg]>>,
   thrown |-> callback = "throws",
   value |-> [name |-> "Error", input |-> name]]

\* parse without the try
parseUncaught(smiles, successCallback, errorCallback) ==
  LET parsed == ParserParse(smiles)
      body ==
        IF successCallback = "none"
        THEN [ran |-> <<>>, thrown |-> FALSE, value |-> <<>>, parsed |-> FALSE]
        ELSE IF parsed.thrown
        THEN [ran |-> <<>>, thrown |-> TRUE, value |-> parsed.value, parsed |-> TRUE]
        ELSE Invoke("success", successCallback, parsed.value) @@ [parsed |-> TRUE]
  IN [smiles |-> smiles, successCallback |-> successCallback,
      errorCallback |-> errorCallback, parsed |-> body.parsed,
      ran |-> body.ran, thrown |-> body.thrown,
      value |-> IF body.thrown THEN body.value ELSE <<>>]

\* SmilesDrawer.parse(smiles, successCallback, errorCallback)
parse(smiles, successCallback, errorCallback) ==
  LET parsed == ParserParse(smiles)
      body ==
        IF successCallback = "none"
        THEN [ran |-> <<>>, thrown |-> FALSE, value |-> <<>>, parsed |-> FALSE]
        ELSE IF parsed.thrown
        THEN [ran |-> <<>>, thrown |-> TRUE, value |-> parsed.value, parsed |-> TRUE]
        ELSE Invoke("success", successCallback, parsed.value) @@ [parsed |-> TRUE]
      handler ==
        IF body.thrown /\ errorCallback # "none"
        THEN Invoke("error", errorCallback, body.value)
        ELSE [ran |-> <<>>, thrown |-> FALSE, value |-> <<>>]
  IN [smiles |-> smiles, successCallback |-> successCallback,
      errorCallback |-> errorCallback, parsed |-> body.parsed,
      ran |-> body.ran \o handler.ran, thrown |-> handler.thrown,
      value |-> IF handler.thrown THEN handler.value ELSE <<>>]

InitParse ==
  /\ parseTree = <<>> /\ graph = NewGraph /\ pc = Idle
  /\ rings = <<>> /\ ringConnections = <<>> /\ rpc = Idle
  /\ layout = Idle /\ builds = Idle /\ pseudoAtom = Idle
  /\ InitMoreIdle
  /\ call = <<>>

otherThanParse == <<graphVars, ringVars, layout, builds, pseudoAtom, moreVars>>

\* a caller calls SmilesDrawer.parse
Parse ==
  /\ Len(call) < MaxCalls
  /\ \E smiles \in Smiles, successCallback \in Callbacks, errorCallback \in Callbacks :
       call' = Append(call, parse(smiles, successCallback, errorCallback))

NextParse == Parse /\ UNCHANGED otherThanParse

SpecParse == InitParse /\ [][NextParse]_vars

----------------------------------------------------------------------------
(* The demo page: src/src/app.js.  The page holds one options object, which *)
(* the listeners of the controls change in place, and the drawer that was   *)
(* constructed when the script was loaded.                                  *)

\* Options.extend(true, defaultOptions, options): a new object with the properties
\* of both, those of the second over those of the first
extend(defaultOptions, options) == options @@ defaultOptions

\* the default options of the drawer
defaultOptions == [debug |-> FALSE]

\* new SmilesDrawer.Drawer(options) of the page: the drawer keeps the merged options
PageDrawer(id, options) == [id |-> id, opts |-> extend(defaultOptions, options)]

\* the values the controls of the page can have
InputValues == {"C", "C("}

BondLengths == {20, 30}

OverlapValues == {0, 1}

\* the function draw of the page, for the drawer d
pageDrawWith(a, d, event) ==
  LET parsed == parse(a.input, "returns", "returns")
      drawn == parsed.ran[1].callback = "success"
  IN [a EXCEPT
        !.events = @ + 1,
        !.graphs = IF drawn THEN @ + 1 ELSE @,
        !.last = [event |-> event,
                  render |-> IF drawn
                             THEN <<[drawer |-> d.id, opts |-> d.opts,
                                     tree |-> parsed.ran[1].arg, graph |-> a.graphs + 1]>>
                             ELSE <<>>],
        !.log = IF drawn THEN "" ELSE parsed.ran[1].arg.name]

\* the function draw of the page
pageDraw(a, event) == pageDrawWith(a, a.smilesDrawer, event)

\* the function updateOptions of the page
updateOptions(a) ==
  LET updatedDrawer == PageDrawer(a.drawers + 1, a.options)
  IN pageDraw([a EXCEPT !.drawers = @ + 1], "options")

InitApp ==
  /\ parseTree = <<>> /\ graph = NewGraph /\ pc = Idle
  /\ rings = <<>> /\ ringConnections = <<>> /\ rpc = Idle
  /\ layout = Idle /\ builds = Idle /\ pseudoAtom = Idle /\ call = Idle
  /\ reaction = Idle /\ themeManager = Idle /\ connection = Idle
  /\ helper = Idle /\ line = Idle
  /\ \E value \in InputValues :
       app = [options |-> [debug |-> FALSE, atomVisualization |-> "default"],
              smilesDrawer |-> PageDrawer(1, [debug |-> FALSE, atomVisualization |-> "default"]),
              drawers |-> 1, input |-> value, events |-> 0, graphs |-> 0,
              last |-> [event |-> "load", render |-> <<>>], log |-> ""]

otherThanApp ==
  <<graphVars, ringVars, layout, builds, pseudoAtom, call, reaction, themeManager,
    connection, helper, line>>

\* the listener of the input field
InputChanged ==
  /\ app.events < MaxEvents
  /\ \E value \in InputValues : app' = pageDraw([app EXCEPT !.input = value], "input")

\* the listener of the debug checkbox
DebugClicked ==
  /\ app.events < MaxEvents
  /\ \E checked \in BOOLEAN :
       app' = updateOptions([app EXCEPT !.options = ("debug" :> checked) @@ @])

\* the listener of the bond length control
BondLengthChanged ==
  /\ app.events < MaxEvents
  /\ \E value \in BondLengths :
       app' = updateOptions([app EXCEPT !.options = ("bondLength" :> value) @@ @])

\* the listener of the overlap control
OverlapChanged ==
  /\ app.events < MaxEvents
  /\ \E value \in OverlapValues :
       app' = updateOptions([app EXCEPT
                               !.options = ("overlapResolutionIterations" :> value) @@ @])

NextApp ==
  \/ InputChanged /\ UNCHANGED otherThanApp
  \/ DebugClicked /\ UNCHANGED otherThanApp
  \/ BondLengthChanged /\ UNCHANGED otherThanApp
  \/ OverlapChanged /\ UNCHANGED otherThanApp

SpecApp == InitApp /\ [][NextApp]_vars

----------------------------------------------------------------------------
(* Reaction: src/src/Reaction.ts.  A string is the sequence of its          *)
(* characters.                                                              *)

\* the characters of the inputs
Chars == {"C", "N", "(", ".", ">"}

RECURSIVE splitFrom(_, _, _, _)
\* String.split, from position k on, with the piece begun and the pieces found
splitFrom(str, separator, k, pieces) ==
  IF k > Len(str) THEN pieces
  ELSE IF str[k] = separator
  THEN splitFrom(str, separator, k + 1, Append(pieces, <<>>))
  ELSE splitFrom(str, separator, k + 1,
                 [pieces EXCEPT ![Len(pieces)] = Append(@, str[k])])

\* str.split(separator): the pieces between the separators; one piece, the string
\* itself, when there is no separator
split(str, separator) == splitFrom(str, separator, 1, << <<>> >>)

\* Parser.parse of a string given as its characters: the parser rejects the empty
\* string and a string with a parenthesis that is not closed
ParserParseChars(str) ==
  IF str = <<>> \/ \E k \in 1..Len(str) : str[k] = "("
  THEN [thrown |-> TRUE, value |-> [name |-> "SyntaxError", input |-> str]]
  ELSE [thrown |-> FALSE, value |-> [tree |-> str]]

RECURSIVE parseAll(_, _, _)
\* the loop that parses the strings of one part, until one is rejected
parseAll(smiles, i, parsed) ==
  IF i > Len(smiles) THEN [thrown |-> FALSE, value |-> parsed]
  ELSE LET r == ParserParseChars(smiles[i])
       IN IF r.thrown THEN r ELSE parseAll(smiles, i + 1, Append(parsed, r.value))

\* the error of the constructor
InvalidReaction ==
  [name |-> "Error",
   message |-> "Invalid reaction SMILES. Did you add fewer than or more than two '>'?"]

\* the constructor splits also an empty part
ReactionUnchecked(reactionSmiles) ==
  LET parts == split(reactionSmiles, ">")
  IN IF Len(parts) # 3 THEN [thrown |-> TRUE, value |-> InvalidReaction]
     ELSE LET reactants == parseAll(split(parts[1], "."), 1, <<>>)
              reagents == parseAll(split(parts[2], "."), 1, <<>>)
              products == parseAll(split(parts[3], "."), 1, <<>>)
          IN IF reactants.thrown THEN reactants
             ELSE IF reagents.thrown THEN reagents
             ELSE IF products.thrown THEN products
             ELSE [thrown |-> FALSE,
                   value |-> [reactants |-> reactants.value, reagents |-> reagents.value,
                              products |-> products.value]]

\* new Reaction(reactionSmiles): the object, or the error thrown
Reaction(reactionSmiles) ==
  LET parts == split(reactionSmiles, ">")
  IN IF Len(parts) # 3 THEN [thrown |-> TRUE, value |-> InvalidReaction]
     ELSE LET reactantsSmiles == IF parts[1] # <<>> THEN split(parts[1], ".") ELSE <<>>
              reagentsSmiles == IF parts[2] # <<>> THEN split(parts[2], ".") ELSE <<>>
              productsSmiles == IF parts[3] # <<>> THEN split(parts[3], ".") ELSE <<>>
              reactants == parseAll(reactantsSmiles, 1, <<>>)
              reagents == parseAll(reagentsSmiles, 1, <<>>)
              products == parseAll(productsSmiles, 1, <<>>)
          IN IF reactants.thrown THEN reactants
             ELSE IF reagents.thrown THEN reagents
             ELSE IF products.thrown THEN products
             ELSE [thrown |-> FALSE,
                   value |-> [reactants |-> reactants.value, reagents |-> reagents.value,
                              products |-> products.value]]

InitReaction ==
  /\ parseTree = <<>> /\ graph = NewGraph /\ pc = Idle
  /\ rings = <<>> /\ ringConnections = <<>> /\ rpc = Idle
  /\ layout = Idle /\ builds = Idle /\ pseudoAtom = Idle /\ call = Idle
  /\ app = Idle /\ themeManager = Idle /\ connection = Idle
  /\ helper = Idle /\ line = Idle
  /\ reaction = [reactionSmiles |-> <<>>, result |-> <<>>]

otherThanReaction ==
  <<graphVars, ringVars, layout, builds, pseudoAtom, call, app, themeManager,
    connection, helper, line>>

\* the caller writes one more character of the reaction SMILES
Write ==
  /\ reaction.result = <<>>
  /\ Len(reaction.reactionSmiles) < MaxLength
  /\ \E char \in Chars :
       reaction' = [reaction EXCEPT !.reactionSmiles = Append(@, char)]

\* new Reaction(reactionSmiles)
Construct_Reaction ==
  /\ reaction.result = <<>>
  /\ reaction' = [reaction EXCEPT !.result = <<Reaction(reaction.reactionSmiles)>>]

NextReaction ==
  \/ Write /\ UNCHANGED otherThanReaction
  \/ Construct_Reaction /\ UNCHANGED otherThanReaction

SpecReaction == InitReaction /\ [][NextReaction]_vars

----------------------------------------------------------------------------
(* ThemeManager: src/src/ThemeManager.ts *)

\* the colour tables the manager is constructed with
ColorTables ==
  {[light |-> [C |-> "#222", O |-> "#e74c3c", BACKGROUND |-> "#fff"],
    dark |-> [C |-> "#fff", O |-> "#e74c3c", BACKGROUND |-> "#141414"]],
   [light |-> [C |-> "#222", N |-> "#3498db"]]}

\* the theme names of the calls
ThemeNames == {"light", "dark", "neon"}

\* the keys getColor is asked for; the empty string is the key that is not given
ColorKeys == {"C", "c", "O", "n", "BACKGROUND", ""}

\* the value undefined where a colour table is expected
UndefinedTable == [undefined |-> TRUE]

\* colors[theme]: undefined for a name the object has not
tableOf(colors, theme) == IF theme \in DOMAIN colors THEN colors[theme] ELSE UndefinedTable

\* new ThemeManager(colors, theme)
NewThemeManager(colors, theme) == [colors |-> colors, theme |-> tableOf(colors, theme)]

\* the theme is set whether the name exists or not
setThemeUnchecked(tm, theme) == [tm EXCEPT !.theme = tableOf(tm.colors, theme)]

\* ThemeManager.setTheme
setTheme(tm, theme) ==
  IF theme \in DOMAIN tm.colors
  THEN [tm EXCEPT !.theme = tm.colors[theme]]
  ELSE tm

\* ThemeManager.getColor: the colour, or the TypeError of a look-up in undefined
getColor(tm, key) ==
  IF tm.theme = UndefinedTable
  THEN [thrown |-> TRUE, value |-> "TypeError"]
  ELSE IF key # "" /\ toUpperCase(key) \in DOMAIN tm.theme
  THEN [thrown |-> FALSE, value |-> tm.theme[toUpperCase(key)]]
  ELSE [thrown |-> FALSE, value |-> tm.theme["C"]]

InitTheme ==
  /\ parseTree = <<>> /\ graph = NewGraph /\ pc = Idle
  /\ rings = <<>> /\ ringConnections = <<>> /\ rpc = Idle
  /\ layout = Idle /\ builds = Idle /\ pseudoAtom = Idle /\ call = Idle
  /\ app = Idle /\ reaction = Idle /\ connection = Idle
  /\ helper = Idle /\ line = Idle
  /\ \E colors \in ColorTables, theme \in ThemeNames :
       themeManager = [manager |-> NewThemeManager(colors, theme),
                       constructed |-> theme, calls |-> <<>>,
                       before |-> NewThemeManager(colors, theme)]

otherThanTheme ==
  <<graphVars, ringVars, layout, builds, pseudoAtom, call, app, reaction,
    connection, helper, line>>

\* a caller calls setTheme
SetTheme ==
  /\ Len(themeManager.calls) < MaxThemeCalls
  /\ \E theme \in ThemeNames :
       themeManager' = [themeManager EXCEPT
                          !.manager = setTheme(@, theme),
                          !.calls = Append(@, theme),
                          !.before = themeManager.manager]

NextTheme == SetTheme /\ UNCHANGED otherThanTheme

SpecTheme == InitTheme /\ [][NextTheme]_vars

----------------------------------------------------------------------------
(* One ring connection whose ring ids are updated: src/src/RingConnection.ts *)

\* the member lists of the two rings the connection is constructed from
MemberLists == {<<0, 1, 2>>, <<1, 2, 3>>, <<3, 4, 5>>}

\* the ring id is always written to firstRingId
updateOtherFirst(rc, ringId, otherRingId) == [rc EXCEPT !.firstRingId = ringId]

\* RingConnection.updateOther
updateOther(rc, ringId, otherRingId) ==
  IF rc.firstRingId = otherRingId
  THEN [rc EXCEPT !.secondRingId = ringId]
  ELSE [rc EXCEPT !.firstRingId = ringId]

InitConnection ==
  /\ parseTree = <<>> /\ graph = NewGraph /\ pc = Idle
  /\ rings = <<>> /\ ringConnections = <<>> /\ rpc = Idle
  /\ layout = Idle /\ builds = Idle /\ pseudoAtom = Idle /\ call = Idle
  /\ app = Idle /\ reaction = Idle /\ themeManager = Idle
  /\ helper = Idle /\ line = Idle
  /\ \E first, second \in 0..MaxRingId, firstMembers, secondMembers \in MemberLists :
       /\ first # second
       /\ LET rc == [RingConnection([id |-> first, members |-> firstMembers],
                                    [id |-> second, members |-> secondMembers])
                      EXCEPT !.id = 0]
          IN connection = [rc |-> rc, before |-> rc, updates |-> <<>>]

otherThanConnection ==
  <<graphVars, ringVars, layout, builds, pseudoAtom, call, app, reaction,
    themeManager, helper, line>>

\* a caller calls updateOther
UpdateOther ==
  /\ Len(connection.updates) < MaxUpdates
  /\ \E ringId, otherRingId \in 0..MaxRingId :
       connection' = [rc |-> updateOther(connection.rc, ringId, otherRingId),
                      before |-> connection.rc,
                      updates |-> Append(connection.updates,
                                         [ringId |-> ringId, otherRingId |-> otherRingId])]

NextConnection == UpdateOther /\ UNCHANGED otherThanConnection

SpecConnection == InitConnection /\ [][NextConnection]_vars

----------------------------------------------------------------------------
(* MathHelper.parityOfPermutation: src/src/MathHelper.ts, and               *)
(* ArrayHelper.containsAll: src/src/Options.ts.  An array is a sequence,    *)
(* read with At from index 0.                                               *)

\* the permutations of 0..n-1, as arrays
PermutationsOf(n) ==
  {arr \in [1..n -> 0..(n - 1)] : \A i, j \in 1..n : i # j => arr[i] # arr[j]}

RECURSIVE traverseCycle(_, _, _, _)
\* traverseCycle(i, cycleLength): the cycle length and the array visited
traverseCycle(arr, visited, i, cycleLength) ==
  IF At(visited, i) = 1
  THEN [cycleLength |-> cycleLength, visited |-> visited]
  ELSE traverseCycle(arr, [visited EXCEPT ![i + 1] = 1], At(arr, i), cycleLength + 1)

RECURSIVE parityLoopOdd(_, _, _, _)
\* the cycles of odd length are counted
parityLoopOdd(arr, visited, i, evenLengthCycleCount) ==
  IF i >= Len(arr) THEN evenLengthCycleCount
  ELSE IF At(visited, i) = 1
  THEN parityLoopOdd(arr, visited, i + 1, evenLengthCycleCount)
  ELSE LET t == traverseCycle(arr, visited, i, 0)
       IN parityLoopOdd(arr, t.visited, i + 1,
                        evenLengthCycleCount + (t.cycleLength % 2))

RECURSIVE parityLoop(_, _, _, _)
\* for (let i = 0; i < arr.length; i++): the cycles of even length are counted
parityLoop(arr, visited, i, evenLengthCycleCount) ==
  IF i >= Len(arr) THEN evenLengthCycleCount
  ELSE IF At(visited, i) = 1
  THEN parityLoop(arr, visited, i + 1, evenLengthCycleCount)
  ELSE LET t == traverseCycle(arr, visited, i, 0)
       IN parityLoop(arr, t.visited, i + 1,
                     evenLengthCycleCount + (1 - (t.cycleLength % 2)))

\* the parity taken from the cycles of odd length
parityOfPermutationOdd(arr) ==
  IF parityLoopOdd(arr, [k \in 1..Len(arr) |-> 0], 0, 0) % 2 # 0 THEN 0 - 1 ELSE 1

\* MathHelper.parityOfPermutation
parityOfPermutation(arr) ==
  IF parityLoop(arr, [k \in 1..Len(arr) |-> 0], 0, 0) % 2 # 0 THEN 0 - 1 ELSE 1

\* the elements of the arrays handed to ArrayHelper
ArrayValues == {1, 2}

\* the arrays of a length up to n
Arrays(n) == UNION {[1..k -> ArrayValues] : k \in 0..n}

RECURSIVE containsAllLoop(_, _, _, _, _)
\* the two loops of containsAll: the pairs (i, j) with arrA[i] === arrB[j] are counted
containsAllLoop(arrA, arrB, i, j, containing) ==
  IF i >= Len(arrA) THEN containing
  ELSE IF j >= Len(arrB) THEN containsAllLoop(arrA, arrB, i + 1, 0, containing)
  ELSE containsAllLoop(arrA, arrB, i, j + 1,
                       IF At(arrA, i) = At(arrB, j) THEN containing + 1 ELSE containing)

\* ArrayHelper.containsAll
containsAll(arrA, arrB) == containsAllLoop(arrA, arrB, 0, 0, 0) = Len(arrB)

InitHelper ==
  /\ parseTree = <<>> /\ graph = NewGraph /\ pc = Idle
  /\ rings = <<>> /\ ringConnections = <<>> /\ rpc = Idle
  /\ layout = Idle /\ builds = Idle /\ pseudoAtom = Idle /\ call = Idle
  /\ app = Idle /\ reaction = Idle /\ themeManager = Idle /\ connection = Idle
  /\ line = Idle
  /\ helper = [called |-> "nothing", arr |-> <<>>, arrB |-> <<>>, result |-> 0]

otherThanHelper ==
  <<graphVars, ringVars, layout, builds, pseudoAtom, call, app, reaction,
    themeManager, connection, line>>

\* a caller calls MathHelper.parityOfPermutation with a permutation
ParityOfPermutation ==
  \E n \in 0..MaxPermutation :
    \E arr \in PermutationsOf(n) :
      helper' = [called |-> "parityOfPermutation", arr |-> arr, arrB |-> <<>>,
                 result |-> parityOfPermutation(arr)]

\* a caller calls ArrayHelper.containsAll
ContainsAll ==
  \E arrA, arrB \in Arrays(MaxArray) :
    helper' = [called |-> "containsAll", arr |-> arrA, arrB |-> arrB,
               result |-> IF containsAll(arrA, arrB) THEN 1 ELSE 0]

NextHelper ==
  \/ ParityOfPermutation /\ UNCHANGED otherThanHelper
  \/ ContainsAll /\ UNCHANGED otherThanHelper

SpecHelper == InitHelper /\ [][NextHelper]_vars

----------------------------------------------------------------------------
(* Line: src/src/Atom.ts.  The vectors are objects of a heap; a line names  *)
(* its two endpoints by their places in the heap.                           *)

\* new Vector2(x, y) on the heap: the heap and the place of the new vector
NewVector(heap, x, y) == [heap |-> Append(heap, [x |-> x, y |-> y]), ref |-> Len(heap) + 1]

\* Vector2.clone: a new vector with the same coordinates
cloneVector(heap, ref) == NewVector(heap, heap[ref].x, heap[ref].y)

\* new Line(from, to, elementFrom, elementTo, chiralFrom, chiralTo)
Line(from, to, elementFrom, elementTo, chiralFrom, chiralTo) ==
  [from |-> from, to |-> to, elementFrom |-> elementFrom, elementTo |-> elementTo,
   chiralFrom |-> chiralFrom, chiralTo |-> chiralTo]

\* Line.clone: the heap with the two new vectors, and the new line; the two chiral
\* arguments are left out and take their default, false
clone(heap, l) ==
  LET from == cloneVector(heap, l.from)
      to == cloneVector(from.heap, l.to)
  IN [heap |-> to.heap,
      line |-> Line(from.ref, to.ref, l.elementFrom, l.elementTo, FALSE, FALSE)]

\* Line.getRightChiral
getRightChiral(heap, l) ==
  IF heap[l.from].x < heap[l.to].x THEN l.chiralTo ELSE l.chiralFrom

\* Line.getLeftChiral
getLeftChiral(heap, l) ==
  IF heap[l.from].x < heap[l.to].x THEN l.chiralFrom ELSE l.chiralTo

\* Line.setRightVector
setRightVector(heap, l, x, y) ==
  IF heap[l.from].x < heap[l.to].x
  THEN [heap EXCEPT ![l.to] = [x |-> x, y |-> y]]
  ELSE [heap EXCEPT ![l.from] = [x |-> x, y |-> y]]

\* the element symbols of the ends of a line; null for none
LineElements == {"null", "C", "N"}

InitLine ==
  /\ parseTree = <<>> /\ graph = NewGraph /\ pc = Idle
  /\ rings = <<>> /\ ringConnections = <<>> /\ rpc = Idle
  /\ layout = Idle /\ builds = Idle /\ pseudoAtom = Idle /\ call = Idle
  /\ app = Idle /\ reaction = Idle /\ themeManager = Idle /\ connection = Idle
  /\ helper = Idle
  /\ \E fromX, toX \in 0..MaxCoordinate, elementFrom, elementTo \in LineElements,
        chiralFrom, chiralTo \in BOOLEAN :
       LET from == NewVector(<<>>, fromX, 0)
           to == NewVector(from.heap, toX, 1)
       IN line = [heap |-> to.heap,
                  original |-> Line(from.ref, to.ref, elementFrom, elementTo,
                                    chiralFrom, chiralTo),
                  cloned |-> <<>>,
                  heapAtClone |-> <<>>]

otherThanLine ==
  <<graphVars, ringVars, layout, builds, pseudoAtom, call, app, reaction,
    themeManager, connection, helper>>

\* the line is cloned
Clone ==
  /\ line.cloned = <<>>
  /\ LET c == clone(line.heap, line.original)
     IN line' = [line EXCEPT !.heap = c.heap, !.cloned = <<c.line>>, !.heapAtClone = c.heap]

\* the right end of the clone is moved
MoveClone ==
  /\ line.cloned # <<>>
  /\ line.heap = line.heapAtClone
  /\ \E x, y \in 0..MaxCoordinate :
       line' = [line EXCEPT !.heap = setRightVector(@, line.cloned[1], x, y)]

NextLine ==
  \/ Clone /\ UNCHANGED otherThanLine
  \/ MoveClone /\ UNCHANGED otherThanLine

SpecLine == InitLine /\ [][NextLine]_vars

----------------------------------------------------------------------------
(* SmilesDrawer.apply: src/src/app.js.  The elements are given by their     *)
(* data-smiles attributes, in document order; the draw of an element        *)
(* returns.                                                                 *)

\* the error callback apply hands to parse: (err) => { if (onError) { onError(err); } }
\* returns unless onError throws
wrapper(onError) == IF onError = "throws" THEN "throws" ELSE "returns"

\* what one call of parse in the loop adds to the log of apply
logged(i, onError, parsed) ==
  IF parsed.ran = <<>> THEN <<>>
  ELSE IF parsed.ran[1].callback = "success"
  THEN <<[element |-> i, event |-> "drawn", arg |-> parsed.ran[1].arg]>>
  ELSE IF onError # "none"
  THEN <<[element |-> i, event |-> "reported", arg |-> parsed.ran[1].arg]>>
  ELSE <<>>

RECURSIVE applyLoopUncaught(_, _, _, _)
\* the loop with a parse that has no try
applyLoopUncaught(elements, onError, i, log) ==
  IF i > Len(elements) THEN [log |-> log, thrown |-> FALSE]
  ELSE LET parsed == parseUncaught(elements[i], "returns", wrapper(onError))
       IN IF parsed.thrown
          THEN [log |-> log \o logged(i, onError, parsed), thrown |-> TRUE]
          ELSE applyLoopUncaught(elements, onError, i + 1, log \o logged(i, onError, parsed))

RECURSIVE applyLoop(_, _, _, _)
\* for (let i = 0; i < elements.length; i++) this.parse(...)
applyLoop(elements, onError, i, log) ==
  IF i > Len(elements) THEN [log |-> log, thrown |-> FALSE]
  ELSE LET parsed == parse(elements[i], "returns", wrapper(onError))
       IN IF parsed.thrown
          THEN [log |-> log \o logged(i, onError, parsed), thrown |-> TRUE]
          ELSE applyLoop(elements, onError, i + 1, log \o logged(i, onError, parsed))

\* SmilesDrawer.apply(options, selector, themeName, onError)
apply(elements, onError) == applyLoop(elements, onError, 1, <<>>)

InitApply ==
  /\ parseTree = <<>> /\ graph = NewGraph /\ pc = Idle
  /\ rings = <<>> /\ ringConnections = <<>> /\ rpc = Idle
  /\ layout = Idle /\ builds = Idle /\ pseudoAtom = Idle
  /\ InitMoreIdle
  /\ call = [elements |-> <<>>, onError |-> "none", result |-> <<>>]

\* the page has one more element with a data-smiles attribute
AddElement ==
  /\ call.result = <<>>
  /\ Len(call.elements) < MaxElements
  /\ \E smiles \in Smiles : call' = [call EXCEPT !.elements = Append(@, smiles)]

\* a caller calls SmilesDrawer.apply
Apply ==
  /\ call.result = <<>>
  /\ \E onError \in Callbacks :
       call' = [call EXCEPT !.onError = onError,
                            !.result = <<apply(call.elements, onError)>>]

NextApply ==
  \/ AddElement /\ UNCHANGED otherThanParse
  \/ Apply /\ UNCHANGED otherThanParse

SpecApply == InitApply /\ [][NextApply]_vars


----------------------------------------------------------------------------
(* What the claims speak of *)

V == graph.vertices

E == graph.edges

Built == pc \in {"built", "closed"}

VertexIds == 0..(Len(V) - 1)

\* an edge of the spanning tree joins a vertex to its parent
IsTreeEdge(e) == At(V, e.targetId).parentVertexId = e.sourceId

\* the stereo hydrogens a node of the parse tree asks for
StereoHydrogensOf(node) ==
  IF node.atom.bracket /\ node.atom.chirality # "" THEN node.atom.hcount ELSE 0

RECURSIVE SubtreeSize(_, _)
RECURSIVE SizeOfAll(_, _, _)
\* the number of vertices the subtree of node i gives
SubtreeSize(tree, i) ==
  1 + StereoHydrogensOf(tree[i]) + SizeOfAll(tree, tree[i].branches, Len(tree[i].branches))
    + (IF tree[i].next # 0 THEN SubtreeSize(tree, tree[i].next) ELSE 0)

\* the number of vertices the first k of the subtrees give
SizeOfAll(tree, nodes, k) ==
  IF k = 0 THEN 0 ELSE SizeOfAll(tree, nodes, k - 1) + SubtreeSize(tree, nodes[k])

ParentNode(tree, i) ==
  CHOOSE p \in 1..Len(tree) : tree[p].next = i \/ \E k \in 1..Len(tree[p].branches) : tree[p].branches[k] = i

RECURSIVE VertexOf(_, _)
\* the id of the vertex of node i: the number of vertices made before it in
\* the walk (a node, its stereo hydrogens, its branches in order, its next)
VertexOf(tree, i) ==
  IF i = 1 THEN 0
  ELSE LET p == ParentNode(tree, i)
           base == VertexOf(tree, p) + 1 + StereoHydrogensOf(tree[p])
           before == IF tree[p].next = i
                     THEN Len(tree[p].branches)
                     ELSE (CHOOSE k \in 1..Len(tree[p].branches) : tree[p].branches[k] = i) - 1
       IN base + SizeOfAll(tree, tree[p].branches, before)

LabelsOf(ringbonds) == {ringbonds[k].id : k \in 1..Len(ringbonds)}

\* C1: after the build the vertex at position i has id i, the edge at position j has
\* id j, and the source and the target of every edge are ids of vertices of the graph
C1_DenseIds ==
  Built =>
    /\ \A i \in 1..Len(V) : V[i].id = i - 1
    /\ \A j \in 1..Len(E) : E[j].id = j - 1
    /\ \A j \in 1..Len(E) : E[j].sourceId \in VertexIds /\ E[j].targetId \in VertexIds

C1_Witness == pc = "closed" /\ Len(V) >= 4 /\ Len(E) >= 4

\* C2: every atom that is not a hydrogen gets an index, and in a molecule of two or
\* more atom nodes no hydrogen gets one
C2_HydrogenIndex ==
  Built =>
    /\ \A v \in VertexIds : At(V, v).value.element # "H" => At(V, v).value.idx # Null
    /\ Len(parseTree) >= 2 =>
         \A v \in VertexIds : At(V, v).value.element = "H" => At(V, v).value.idx = Null

\* C3: the weight of every edge of a branch bond or a chain bond is the value the
\* table Edge.bonds gives its bond type
C3_EdgeWeights ==
  Built =>
    \A j \in 1..Len(E) : IsTreeEdge(E[j]) => E[j].weight = bonds[E[j].bondType]

\* C4: for every ring-closure label on exactly two atom nodes, the graph has exactly
\* one edge outside the spanning tree between the two vertices, and both atoms
\* carry the label in their ringbonds
C4_RingClosure ==
  pc = "closed" =>
    \A l \in UNION {LabelsOf(parseTree[i].ringbonds) : i \in 1..Len(parseTree)} :
      LET nodes == {i \in 1..Len(parseTree) : l \in LabelsOf(parseTree[i].ringbonds)}
          ends == {VertexOf(parseTree, i) : i \in nodes}
      IN Cardinality(nodes) = 2 =>
           /\ Cardinality(ends) = 2
           /\ Cardinality({j \in 1..Len(E) :
                             /\ {E[j].sourceId, E[j].targetId} = ends
                             /\ ~IsTreeEdge(E[j])}) = 1
           /\ \A v \in ends : l \in LabelsOf(At(V, v).value.ringbonds)

C4_Witness ==
  /\ pc = "closed"
  /\ Len(V) >= 4
  /\ \E j \in 1..Len(E) : ~IsTreeEdge(E[j]) /\ E[j].sourceId > E[j].targetId + 1

RECURSIVE ReachesRoot(_, _)
\* following parentVertexId from v reaches vertex 0 within fuel steps
ReachesRoot(v, fuel) ==
  IF v = 0 THEN TRUE
  ELSE IF fuel = 0 \/ v \notin VertexIds THEN FALSE
  ELSE ReachesRoot(At(V, v).parentVertexId, fuel - 1)

\* the number of times v occurs in the spanning-tree children of u
Occurs(v, u) ==
  LET children == At(V, u).spanningTreeChildren
  IN Cardinality({k \in 1..Len(children) : children[k] = v})

\* C5: vertex 0 has no parent, every other vertex has a parent of a smaller id and
\* occurs once, in the children of its parent and nowhere else, and the parents
\* lead from every vertex to vertex 0
C5_SpanningTree ==
  Built =>
    /\ Len(V) >= 1
    /\ At(V, 0).parentVertexId = Null
    /\ \A u \in VertexIds : Occurs(0, u) = 0
    /\ \A v \in VertexIds \ {0} :
         /\ At(V, v).parentVertexId \in 0..(v - 1)
         /\ \A u \in VertexIds :
              Occurs(v, u) = IF u = At(V, v).parentVertexId THEN 1 ELSE 0
         /\ ReachesRoot(v, Len(V))

C5_Witness ==
  /\ Built
  /\ \E v \in VertexIds : Len(At(V, v).spanningTreeChildren) >= 2
  /\ \E v \in VertexIds : At(V, v).parentVertexId > 0

Indexed == {v \in VertexIds : At(V, v).value.idx # Null}

RECURSIVE StereoHydrogensUpTo(_)
StereoHydrogensUpTo(k) ==
  IF k = 0 THEN 0 ELSE StereoHydrogensUpTo(k - 1) + StereoHydrogensOf(parseTree[k])

\* the stereo hydrogens the parse tree asks for
StereoHydrogens == StereoHydrogensUpTo(Len(parseTree))

\* C6 as claimed: the number of vertices is the number of atoms given an index plus
\* the number of stereo hydrogens
C6_VertexCount ==
  Built => Len(V) = Cardinality(Indexed) + StereoHydrogens

\* C6 as amended: the number of vertices is the number of atoms given an index,
\* plus the number of stereo hydrogens, plus the number of hydrogen atom nodes of
\* the parse tree that were given no index
C6_VertexCountAmended ==
  Built =>
    Len(V) = Cardinality(Indexed) + StereoHydrogens
             + Cardinality({i \in 1..Len(parseTree) : parseTree[i].atom.element = "H"})
             - Cardinality({v \in Indexed : At(V, v).value.element = "H"})

C6_Witness ==
  /\ Built
  /\ StereoHydrogens >= 1
  /\ \E i \in 1..Len(parseTree) : parseTree[i].atom.element = "H"
  /\ \E i \in 1..Len(parseTree) : parseTree[i].atom = BracketNH
  /\ Len(V) > Cardinality(Indexed) + StereoHydrogens

\* C7: atomIdxToVertexId has one entry for each atom given an index, entry k is
\* the id of the vertex whose atom has idx k, and no vertex without idx is in it
C7_AtomIdxMap ==
  Built =>
    LET m == graph.atomIdxToVertexId
    IN /\ Len(m) = Cardinality(Indexed)
       /\ \A k \in 0..(Len(m) - 1) :
            At(m, k) \in VertexIds /\ At(V, At(m, k)).value.idx = k
       /\ \A v \in VertexIds \ Indexed : v \notin Range(m)

C7_Witness ==
  /\ Built
  /\ Len(graph.atomIdxToVertexId) >= 2
  /\ \E k \in 0..(Len(graph.atomIdxToVertexId) - 1) : At(graph.atomIdxToVertexId, k) > k

Connections == Range(ringConnections)

Members(ringId) == Range(At(rings, ringId).members)

RingIds == 0..(Len(rings) - 1)

\* C8: isBridge is true exactly when the connection has more than two vertices or
\* one of its vertices is in more than two rings
C8_IsBridgeIff ==
  rpc = "connected" =>
    \A rc \in Connections :
      isBridge(rc, RingVertices) <=>
        \/ Cardinality(Range(rc.vertices)) > 2
        \/ \E v \in Range(rc.vertices) : Len(RingVertices[v].value.rings) > 2

C8_Witness ==
  /\ rpc = "connected"
  /\ \E rc \in Connections : Len(rc.vertices) = 2 /\ isBridge(rc, RingVertices)
  /\ \E rc \in Connections : Len(rc.vertices) = 1 /\ isBridge(rc, RingVertices)

\* two rings of six members that share a bond: two vertices
FusedBicyclic ==
  /\ Len(rings) = 2
  /\ Len(At(rings, 0).members) = 6
  /\ Len(At(rings, 1).members) = 6
  /\ Cardinality(Members(0) \cap Members(1)) = 2

BridgedPair(a, b) ==
  LET shared == Members(a) \cap Members(b)
  IN \/ Cardinality(shared) > 2
     \/ \E v \in shared : \A r \in RingIds : v \in Members(r)

\* C10: in a molecule of three rings the connections of the bridged pairs of rings are
\* bridges and no other connection is
C10_Tricyclic ==
  (rpc = "connected" /\ Len(rings) = 3) =>
    /\ \A rc \in Connections :
         isBridge(rc, RingVertices) <=> BridgedPair(rc.firstRingId, rc.secondRingId)
    /\ \A a, b \in RingIds :
         a # b => (staticIsBridge(ringConnections, RingVertices, a, b) <=> BridgedPair(a, b))

C10_Witness ==
  /\ rpc = "connected"
  /\ Len(rings) = 3
  /\ Len(ringConnections) = 3
  /\ \E rc \in Connections : Len(rc.vertices) > 2
  /\ \E rc \in Connections : ~isBridge(rc, RingVertices)

\* C11: a pair of rings has a ring connection exactly when the two rings share a
\* vertex; the vertices of every ring connection are the vertices that are members
\* of both of its rings, and there is at least one
C11_ConnectionIffShared ==
  rpc = "connected" =>
    /\ \A a, b \in RingIds :
         a < b =>
           ((\E rc \in Connections : rc.firstRingId = a /\ rc.secondRingId = b)
              <=> Members(a) \cap Members(b) # {})
    /\ \A rc \in Connections :
         /\ rc.firstRingId \in RingIds /\ rc.secondRingId \in RingIds
         /\ rc.firstRingId < rc.secondRingId
         /\ Len(rc.vertices) > 0
         /\ Range(rc.vertices) = Members(rc.firstRingId) \cap Members(rc.secondRingId)
         /\ Cardinality(Range(rc.vertices)) = Len(rc.vertices)

C11_Witness ==
  /\ rpc = "connected"
  /\ Len(rings) = 3
  /\ Len(ringConnections) = 1
  /\ Len(ringConnections[1].vertices) = 2
  /\ Members(0) \cap Members(1) = {}

SvgDrawer == layout.svgDrawer

IsPrefix(a, b) == Len(a) <= Len(b) /\ \A k \in 1..Len(a) : a[k] = b[k]

C14_Terminates ==
  /\ [](layout.draws > 0 =>
          /\ SvgDrawer.iteration <= SvgDrawer.opts.overlapResolutionIterations
          /\ SvgDrawer.stable =>
               (SvgDrawer.iteration >= 1 /\
                SvgDrawer.scores[SvgDrawer.iteration + 1] = SvgDrawer.scores[SvgDrawer.iteration]))
  /\ [][(SvgDrawer.stable /\ SvgDrawer.phase = "RING_PLACED") =>
          SvgDrawer'.iteration = SvgDrawer.iteration]_vars
  /\ \A d \in 1..MaxDraws :
       (layout.pc = "drawing" /\ layout.draws = d)
         ~> (layout.pc = "ready" /\ layout.draws = d /\ SvgDrawer.phase = "DONE")

C14_Witness ==
  /\ SvgDrawer.phase = "DONE"
  /\ SvgDrawer.iteration = SvgDrawer.opts.overlapResolutionIterations
  /\ SvgDrawer.iteration = 2
  /\ ~SvgDrawer.stable
  /\ SvgDrawer.totalOverlapScore > 0

BothBuilt == Len(builds) = 2 /\ builds[1].pc = "done" /\ builds[2].pc = "done"

AtomsOf(b) == {builds[b].graph.vertices[k].value : k \in 1..Len(builds[b].graph.vertices)}

\* an array or an object of the parse tree that atoms of both graphs hold
SharedObjects ==
  IF builds[1].tree # builds[2].tree THEN {}
  ELSE {<<"ringbonds", x.ringbondsRef>> :
          x \in {y \in AtomsOf(1) : y.ringbondsRef # Null /\
                                   \E z \in AtomsOf(2) : z.ringbondsRef = y.ringbondsRef}}
       \cup
       {<<"bracket", x.bracketRef>> :
          x \in {y \in AtomsOf(1) : y.bracketRef # Null /\
                                   \E z \in AtomsOf(2) : z.bracketRef = y.bracketRef}}

\* C16: the counter of a build starts at 0 and is its own, so that two builds, their
\* steps taken in any order, each give the graph that the build gives alone, and
\* the two graphs have no list and no object in common
C16_BuildIsolation ==
  /\ \A b \in 1..Len(builds) :
       /\ builds[b].pc = "new" => builds[b].graph.atomIdx = 0
       /\ builds[b].pc = "done" => builds[b].graph = Construct(parseTree)
  /\ BothBuilt => SharedObjects = {}

\* the edges with a wedge direction
Wedged == {k \in 1..Len(E) : wedge(E[k]) \in {"up", "down"}}

\* the vertex of the one node with a chirality tag
TaggedVertex == VertexOf(parseTree, CHOOSE i \in Tags(parseTree) : TRUE)

Formula == getMolecularFormula(pseudoAtom.atoms)

\* the occurrences of an element: the atoms of the element and, for hydrogen, the
\* hydrogens of the terminal groups that were collapsed
Occurrences(element) ==
  Cardinality({i \in 1..Len(pseudoAtom.atoms) : pseudoAtom.atoms[i].element = element})
    + (IF element = "H"
       THEN pseudoAtom.hydrogens
       ELSE 0)

\* the place of an element symbol in the alphabet
Place(element) == CHOOSE k \in 1..Len(Alphabet) : Alphabet[k] = element

IsLowerCase(element) == SymbolLength(element) = 1 /\ toUpperCase(element) # element

\* C19: the atom of a vertex built for a parse tree node written with a lower-case
\* one-letter element has the upper-case element and isPartOfAromaticRing = TRUE;
\* the atom of every other vertex has its element as written and the flag FALSE
C19_AromaticFlag ==
  pc \in {"built", "closed"} =>
    \A i \in 1..Len(graph.vertices) :
      LET a == graph.vertices[i].value
          written == parseTree[a.ringbondsRef].atom.element
      IN a.ringbondsRef # Null =>
           /\ a.element = (IF IsLowerCase(written) THEN toUpperCase(written) ELSE written)
           /\ a.isPartOfAromaticRing = IsLowerCase(written)

\* the parser was called and rejected the input
ParserRejected(c) == c.parsed /\ ParserParse(c.smiles).thrown

\* the success callback did not run; the error callback ran once, with the parser's error
ReportedOnce(c) ==
  c.ran = <<[callback |-> "error", arg |-> ParserParse(c.smiles).value]>>

\* C20: when the parser rejects the input of a parse call, the success callback is
\* not run and the error callback is invoked exactly once, with the parser's error
C20_ErrorReported ==
  \A k \in 1..Len(call) : ParserRejected(call[k]) => ReportedOnce(call[k])

\* C20, amended: so it is when an error callback was passed; when none was passed,
\* no callback runs and the call returns
C20_ErrorReportedAmended ==
  \A k \in 1..Len(call) :
    ParserRejected(call[k]) =>
      IF call[k].errorCallback # "none"
      THEN ReportedOnce(call[k])
      ELSE call[k].ran = <<>> /\ ~call[k].thrown

C20_Witness ==
  \E k \in 1..Len(call) :
    /\ ParserRejected(call[k])
    /\ call[k].successCallback = "returns"
    /\ call[k].errorCallback = "returns"
    /\ Len(call[k].ran) = 1
    /\ call[k].ran[1].callback = "error"
    /\ call[k].ran[1].arg.name = "SyntaxError"
    /\ ~call[k].thrown

\* C21: the redraw that follows a change of the options is made by a drawer that was
\* constructed from the options as they are after the change, from a parse of the
\* input as it is, into a graph of its own
C21_RedrawWithChangedOptions ==
  (app.last.event = "options" /\ app.last.render # <<>>) =>
    /\ app.last.render[1].drawer = app.drawers
    /\ app.last.render[1].opts = extend(defaultOptions, app.options)
    /\ app.last.render[1].tree = ParserParse(app.input).value
    /\ app.last.render[1].graph = app.graphs

\* the positions of a character in a string, and those with the two ends
Positions(str, char) == {k \in 1..Len(str) : str[k] = char}

Cuts(str, char) == Positions(str, char) \cup {0, Len(str) + 1}

\* the piece of a string that begins after the cut a: it ends before the next cut
PieceAfter(str, char, a) ==
  LET b == CHOOSE c \in Cuts(str, char) :
             c > a /\ ~\E d \in Cuts(str, char) : a < d /\ d < c
  IN SubSeq(str, a + 1, b - 1)

\* the k-th piece of a string cut at a character
Piece(str, char, k) ==
  LET a == CHOOSE c \in Cuts(str, char) :
             Cardinality({d \in Cuts(str, char) : d < c}) = k - 1
  IN PieceAfter(str, char, a)

\* the list a part gives: empty for the empty part, else the parse tree of each of
\* its components, in order
ListOf(part) ==
  IF part = <<>> THEN <<>>
  ELSE [k \in 1..(Cardinality(Positions(part, ".")) + 1) |-> [tree |-> Piece(part, ".", k)]]

\* the components of a reaction SMILES with two '>'
ComponentsOf(str) ==
  UNION {IF Piece(str, ">", p) = <<>> THEN {}
         ELSE {Piece(Piece(str, ">", p), ".", k) :
                 k \in 1..(Cardinality(Positions(Piece(str, ">", p), ".")) + 1)} :
         p \in 1..3}

\* the constructor succeeded with the lists of the three parts
Succeeded(r, str) ==
  /\ ~r.thrown
  /\ r.value.reactants = ListOf(Piece(str, ">", 1))
  /\ r.value.reagents = ListOf(Piece(str, ">", 2))
  /\ r.value.products = ListOf(Piece(str, ">", 3))

\* C22: the constructor fails with the error "Invalid reaction SMILES..." if and only
\* if the string has not exactly two '>'; otherwise it succeeds, with an empty list for
\* an empty part and one parsed entry for each '.'-separated component, in order
C22_ReactionConstructor ==
  reaction.result # <<>> =>
    LET r == reaction.result[1]
        str == reaction.reactionSmiles
    IN IF Cardinality(Positions(str, ">")) # 2
       THEN r.thrown /\ r.value = InvalidReaction
       ELSE Succeeded(r, str)

\* C22, amended: with exactly two '>' the constructor succeeds when the parser accepts
\* every component, and fails with the error of the parser when it rejects one
C22_ReactionConstructorAmended ==
  reaction.result # <<>> =>
    LET r == reaction.result[1]
        str == reaction.reactionSmiles
    IN IF Cardinality(Positions(str, ">")) # 2
       THEN r.thrown /\ r.value = InvalidReaction
       ELSE IF \A c \in ComponentsOf(str) : ~ParserParseChars(c).thrown
       THEN Succeeded(r, str)
       ELSE /\ r.thrown
            /\ r.value # InvalidReaction
            /\ \E c \in ComponentsOf(str) : r = ParserParseChars(c)

C22_Witness ==
  /\ reaction.result # <<>>
  /\ reaction.reactionSmiles = <<"C", ".", "N", ">", ">">>
  /\ ~reaction.result[1].thrown
  /\ reaction.result[1].value.reactants = <<[tree |-> <<"C">>], [tree |-> <<"N">>]>>
  /\ reaction.result[1].value.reagents = <<>>
  /\ reaction.result[1].value.products = <<>>

\* the calls of setTheme that named a theme of colors
Existing == {k \in 1..Len(themeManager.calls) :
               themeManager.calls[k] \in DOMAIN themeManager.manager.colors}

\* the name of the theme the calls so far make the current one
CurrentName ==
  IF Existing = {} THEN themeManager.constructed
  ELSE themeManager.calls[CHOOSE k \in Existing : \A l \in Existing : l <= k]

\* C23: the theme is the colour table of the last setTheme call that named a theme of
\* colors, or that of the constructor if there was none; a setTheme call with an unknown
\* name leaves the theme and the result of getColor for every key as they were
C23_CurrentTheme ==
  /\ themeManager.manager.theme = tableOf(themeManager.manager.colors, CurrentName)
  /\ (Len(themeManager.calls) > 0
        /\ themeManager.calls[Len(themeManager.calls)] \notin DOMAIN themeManager.manager.colors)
       => /\ themeManager.manager.theme = themeManager.before.theme
          /\ \A key \in ColorKeys :
               getColor(themeManager.manager, key) = getColor(themeManager.before, key)

C23_Witness ==
  /\ themeManager.calls = <<"dark", "neon">>
  /\ themeManager.constructed = "light"
  /\ "dark" \in DOMAIN themeManager.manager.colors
  /\ getColor(themeManager.manager, "c") = [thrown |-> FALSE, value |-> "#fff"]

\* the neighbours of the vertex with id u
NeighboursOf(u) ==
  {graph.vertices[u + 1].neighbours[k] : k \in 1..Len(graph.vertices[u + 1].neighbours)}

\* C24: after the build, a child is in the neighbours of its parent and the parent is in
\* the neighbours of the child, and v is a neighbour of u exactly if u is one of v
C24_NeighboursSymmetric ==
  pc \in {"built", "closed"} =>
    /\ \A k \in 1..Len(graph.vertices) :
         LET c == graph.vertices[k]
         IN c.parentVertexId # Null =>
              /\ c.id \in NeighboursOf(c.parentVertexId)
              /\ c.parentVertexId \in NeighboursOf(c.id)
    /\ \A u, v \in 0..(Len(graph.vertices) - 1) :
         v \in NeighboursOf(u) <=> u \in NeighboursOf(v)

\* the last call of updateOther
LastUpdate == connection.updates[Len(connection.updates)]

\* C25: after updateOther(ringId, otherRingId) on a connection that contained
\* otherRingId, the connection contains ringId and otherRingId: one of its two ring ids
\* is kept and is otherRingId, the other is ringId; its vertices and its id are as before
C25_UpdateOther ==
  (connection.updates # <<>> /\ containsRing(connection.before, LastUpdate.otherRingId)) =>
    /\ containsRing(connection.rc, LastUpdate.ringId)
    /\ containsRing(connection.rc, LastUpdate.otherRingId)
    /\ \/ /\ connection.rc.firstRingId = connection.before.firstRingId
          /\ connection.rc.firstRingId = LastUpdate.otherRingId
          /\ connection.rc.secondRingId = LastUpdate.ringId
       \/ /\ connection.rc.secondRingId = connection.before.secondRingId
          /\ connection.rc.secondRingId = LastUpdate.otherRingId
          /\ connection.rc.firstRingId = LastUpdate.ringId
    /\ connection.rc.vertices = connection.before.vertices
    /\ connection.rc.id = connection.before.id

C25_Witness ==
  /\ Len(connection.updates) = 2
  /\ containsRing(connection.before, LastUpdate.otherRingId)
  /\ connection.before.firstRingId = LastUpdate.otherRingId
  /\ connection.before.secondRingId # LastUpdate.ringId
  /\ connection.rc.secondRingId = LastUpdate.ringId
  /\ Len(connection.rc.vertices) = 2

\* the number of the inversions of an array: the pairs that stand in falling order
Inversions(arr) ==
  Cardinality({p \in (1..Len(arr)) \X (1..Len(arr)) : p[1] < p[2] /\ arr[p[1]] > arr[p[2]]})

\* C26: parityOfPermutation returns 1 for a permutation with an even number of
\* inversions and -1 for one with an odd number; it returns 1 for the empty and for
\* the identity permutation
C26_Parity ==
  helper.called = "parityOfPermutation" =>
    /\ helper.result = (IF Inversions(helper.arr) % 2 = 0 THEN 1 ELSE 0 - 1)
    /\ (\A k \in 1..Len(helper.arr) : helper.arr[k] = k - 1) => helper.result = 1

C26_Witness ==
  /\ helper.called = "parityOfPermutation"
  /\ helper.arr = <<1, 2, 0, 3>>
  /\ helper.result = 1

\* C27: containsAll(arrA, arrB) is true exactly if every element of arrB is an element
\* of arrA, also when an array has an element more than once
C27_ContainsAll ==
  helper.called = "containsAll" =>
    ((helper.result = 1) <=>
       (\A j \in 1..Len(helper.arrB) : \E i \in 1..Len(helper.arr) :
          helper.arr[i] = helper.arrB[j]))

C29_OneCallback ==
  \A k \in 1..Len(call) :
    LET c == call[k]
    IN /\ Len(c.ran) <= 1
       /\ \A e \in 1..Len(c.ran) : c.ran[e].callback = "error" => ParserRejected(c)
       /\ (c.parsed /\ ~ParserParse(c.smiles).thrown) =>
            c.ran = <<[callback |-> "success", arg |-> ParserParse(c.smiles).value]>>

\* the events of apply for the element i
EventsOf(i, event) ==
  {k \in 1..Len(call.result[1].log) :
     call.result[1].log[k].element = i /\ call.result[1].log[k].event = event}

\* the events of apply are in the order of the elements
InDocumentOrder ==
  \A k, l \in 1..Len(call.result[1].log) :
    k < l => call.result[1].log[k].element < call.result[1].log[l].element

\* the first element whose error onError throws on, or one past the last element
Stop ==
  LET S == {i \in 1..Len(call.elements) :
              ParserParse(call.elements[i]).thrown /\ call.onError = "throws"}
  IN IF S = {} THEN Len(call.elements) + 1 ELSE CHOOSE i \in S : \A j \in S : i <= j

\* C30: apply takes the elements in document order; an element the parser rejects is
\* reported once through onError, when onError is given, and every element is either
\* drawn once or reported once, the elements after a rejected one included
C30_ApplyIsolates ==
  call.result # <<>> =>
    /\ InDocumentOrder
    /\ \A i \in 1..Len(call.elements) :
         /\ (ParserParse(call.elements[i]).thrown /\ call.onError # "none") =>
              Cardinality(EventsOf(i, "reported")) = 1
         /\ Cardinality(EventsOf(i, "drawn")) + Cardinality(EventsOf(i, "reported")) = 1
         /\ ~ParserParse(call.elements[i]).thrown => Cardinality(EventsOf(i, "drawn")) = 1

\* C30, amended: so it is when onError is given and returns.  Without onError a
\* rejected element is neither drawn nor reported, and the later elements are still
\* drawn; when onError throws, apply throws and no later element is parsed or drawn
C30_ApplyIsolatesAmended ==
  call.result # <<>> =>
    /\ InDocumentOrder
    /\ call.result[1].thrown <=> Stop <= Len(call.elements)
    /\ \A i \in 1..Len(call.elements) :
         LET drawn == Cardinality(EventsOf(i, "drawn"))
             reported == Cardinality(EventsOf(i, "reported"))
         IN IF i > Stop THEN drawn = 0 /\ reported = 0
            ELSE IF ~ParserParse(call.elements[i]).thrown THEN drawn = 1 /\ reported = 0
            ELSE /\ drawn = 0
                 /\ reported = (IF call.onError = "none" THEN 0 ELSE 1)
                 /\ \A k \in EventsOf(i, "reported") :
                      call.result[1].log[k].arg = ParserParse(call.elements[i]).value

C30_Witness ==
  /\ call.result # <<>>
  /\ call.elements = <<"C", "C(", "C1CC1">>
  /\ call.onError = "returns"
  /\ ~call.result[1].thrown
  /\ Len(call.result[1].log) = 3
  /\ call.result[1].log[1].event = "drawn"
  /\ call.result[1].log[2].event = "reported"
  /\ call.result[1].log[3].event = "drawn"

====
